---------------------------- MODULE Spec2Model ----------------------------
(***************************************************************************)
(* Model of the extraction-and-normalization pipeline of the B2B           *)
(* marketplace scraper: the field extractors of src/src/scraper/utils.py   *)
(* (clean_price_text, extract_price_unit, normalize_location,              *)
(* calculate_text_similarity, detect_duplicate_products), the cleaning     *)
(* stages and the pipeline of src/src/data_processing/cleaner.py, the      *)
(* record, page and link extractors of                                     *)
(* src/src/scraper/indiamart_scraper.py, and the request retries and the   *)
(* scraping loop of src/src/scraper/base_scraper.py.                       *)
(*                                                                         *)
(* Representation.  A Python str is a tuple of one-character strings, so   *)
(* that lower(), strip(), split(), the substring test and the regular      *)
(* expressions are computed character by character.  A missing value       *)
(* (NaN / None) is NA.  A float is an exact rational <<num, den>> with     *)
(* den > 0; IEEE rounding is not modelled.  A DataFrame is a sequence of   *)
(* rows; the field idx of a row is its index label (a RangeIndex: the      *)
(* position of the row in the table the run started from).                 *)
(***************************************************************************)
EXTENDS Integers, Sequences, FiniteSets, TLC

VARIABLES
    input,      \* remove_duplicates: the table the cleaner was handed
    df,         \* remove_duplicates: the current table
    runs,       \* remove_duplicates: number of calls so far
    removed,    \* remove_duplicates: removed_count of the last call
    simDf,      \* detect_duplicate_products: the table passed in
    threshold,  \* detect_duplicate_products: similarity_threshold, in 1/100
    flags,      \* detect_duplicate_products: the is_duplicate column
    simDone,    \* detect_duplicate_products: the call has ended
    simError,   \* detect_duplicate_products: the call raised TypeError
    priceText,  \* clean_price_text: the argument
    priceInfo,  \* clean_price_text: the returned dict, or NoResult
    locText,    \* normalize_location: the argument
    locInfo,    \* normalize_location: the returned dict, or NoResult
    jacTexts,   \* calculate_text_similarity: the two arguments
    jacResult,  \* calculate_text_similarity: the returned score, or NoResult
    fragment,   \* extract_single_product: the listing fragment passed in
    record,     \* extract_single_product: how the call ended, or NoResult
    page,       \* extract_product_data: the parsed page passed in
    product_elements,  \* extract_product_data: the candidate fragments
    products,   \* extract_product_data: the list returned
    pageDone,   \* extract_product_data: the call has returned
    anchors,    \* get_product_urls: the a elements of the parsed page
    urls,       \* get_product_urls: the list returned, or NoResult
    method,     \* DataCleaner: the method called on the table
    table,      \* DataCleaner: the table passed in
    cleaned,    \* DataCleaner: how the call ended, or NoResult
    entry,      \* BaseScraper: the method called and its arguments
    pc,         \* BaseScraper: the line the call has reached
    requested,  \* make_request: the max_retries argument of the call
    max_retries,   \* make_request: max_retries after line 50
    attempt,    \* make_request: the loop variable of line 52
    outcomes,   \* make_request: how each session.get of the call ended
    response,   \* make_request: the value returned, or NoResult
    max_products,  \* scrape_category: max_products after line 111
    url_index,  \* scrape_category: position of the loop of line 116 in urls
    scraped_data   \* BaseScraper: self.scraped_data

dedupVars == <<input, df, runs, removed>>
simVars == <<simDf, threshold, flags, simDone, simError>>
priceVars == <<priceText, priceInfo>>
locVars == <<locText, locInfo>>
jacVars == <<jacTexts, jacResult>>
recVars == <<fragment, record>>
pageVars == <<page, product_elements, products, pageDone>>
linkVars == <<anchors, urls>>
cleanerVars == <<method, table, cleaned>>
requestVars == <<requested, max_retries, attempt, outcomes, response>>
scrapeVars == <<entry, pc, max_products, url_index, scraped_data>>

vars ==
    <<dedupVars, simVars, priceVars, locVars, jacVars, recVars, pageVars,
      linkVars, cleanerVars, requestVars, scrapeVars>>

(***************************************************************************)
(* Bounds of the model.                                                    *)
(***************************************************************************)
MaxRows == 3
MaxRuns == 2
MaxSimRows == 3
MaxPriceParts == 4
MaxPriceDigits == 8
MaxLocParts == 3
MaxJacParts == 3
MaxPageFragments == 2
MaxAnchors == 2
MaxTextParts == 3
MaxTextRows == 2
MaxPriceRows == 4
MaxUnitRows == 2
MaxLocationRows == 2
MaxCleanRows == 2
MaxRetries == 4
MaxUrls == 3
MaxProducts == 2
MaxPageProducts == 2

(***************************************************************************)
(* Python str, NaN and the str methods the code uses.                      *)
(***************************************************************************)
NA == <<"<NA>">>
IsNA(v) == Len(v) = 1 /\ v[1] = "<NA>"
NoResult == [none |-> TRUE]

Range(s) == {s[i] : i \in DOMAIN s}

Min(S) == CHOOSE x \in S : \A y \in S : x <= y
Max(S) == CHOOSE x \in S : \A y \in S : x >= y

RECURSIVE Concat(_)
Concat(parts) ==
    IF parts = <<>> THEN <<>> ELSE Head(parts) \o Concat(Tail(parts))

SeqsUpTo(S, n) == UNION {[1..k -> S] : k \in 0..n}

Whitespace == {" ", "\t", "\n"}
Digits == {"0", "1", "2", "3", "4", "5", "6", "7", "8", "9"}
LowerLetters == {"a", "b", "c", "d", "e", "f", "g", "h", "i", "j", "k", "l", "m",
                 "n", "o", "p", "q", "r", "s", "t", "u", "v", "w", "x", "y", "z"}
UpperToLower ==
    [c \in {"A", "B", "C", "D", "E", "F", "G", "H", "I", "J", "K", "L", "M",
            "N", "O", "P", "Q", "R", "S", "T", "U", "V", "W", "X", "Y", "Z"} |->
        CASE c = "A" -> "a" [] c = "B" -> "b" [] c = "C" -> "c" [] c = "D" -> "d"
          [] c = "E" -> "e" [] c = "F" -> "f" [] c = "G" -> "g" [] c = "H" -> "h"
          [] c = "I" -> "i" [] c = "J" -> "j" [] c = "K" -> "k" [] c = "L" -> "l"
          [] c = "M" -> "m" [] c = "N" -> "n" [] c = "O" -> "o" [] c = "P" -> "p"
          [] c = "Q" -> "q" [] c = "R" -> "r" [] c = "S" -> "s" [] c = "T" -> "t"
          [] c = "U" -> "u" [] c = "V" -> "v" [] c = "W" -> "w" [] c = "X" -> "x"
          [] c = "Y" -> "y" [] c = "Z" -> "z"]
WordChars == Digits \cup LowerLetters \cup DOMAIN UpperToLower \cup {"_"}

\* str.lower()
LowerChar(c) == IF c \in DOMAIN UpperToLower THEN UpperToLower[c] ELSE c
Lower(s) == [i \in DOMAIN s |-> LowerChar(s[i])]

\* str.strip()
Strip(s) ==
    LET keep == {i \in DOMAIN s : s[i] \notin Whitespace}
    IN  IF keep = {} THEN <<>> ELSE SubSeq(s, Min(keep), Max(keep))

\* str.split() with no argument, as the set of the words (set(text.split()))
WordSet(s) ==
    {SubSeq(s, i, j) : <<i, j>> \in
        {p \in (DOMAIN s) \X (DOMAIN s) :
            /\ p[1] <= p[2]
            /\ \A k \in p[1]..p[2] : s[k] \notin Whitespace
            /\ (p[1] = 1 \/ s[p[1] - 1] \in Whitespace)
            /\ (p[2] = Len(s) \/ s[p[2] + 1] \in Whitespace)}}

\* `key in text` for two str
Contains(text, key) ==
    \E i \in 1..(Len(text) - Len(key) + 1) : SubSeq(text, i, i + Len(key) - 1) = key

\* Series.fillna('')
FillNa(v) == IF IsNA(v) THEN <<>> ELSE v

\* str(value): a missing value prints as "nan"
PyStr(v) == IF IsNA(v) THEN <<"n", "a", "n">> ELSE v

(***************************************************************************)
(* DataCleaner.remove_duplicates (cleaner.py 122-141).                     *)
(***************************************************************************)
\* cleaner.py 127-130: the composite key of one row
dedup_key(row) ==
    Lower(FillNa(row.title)) \o <<"_">> \o Lower(FillNa(row.supplier_name))

\* The rows of a table at the positions in S, in table order (boolean indexing).
Pick(rows, S) ==
    [k \in 1..Cardinality(S) |->
        rows[CHOOSE i \in S : Cardinality({j \in S : j < i}) = k - 1]]

\* cleaner.py 127: df['dedup_key'] = ...
AddKey(rows) ==
    [i \in DOMAIN rows |-> ("dedup_key" :> dedup_key(rows[i])) @@ rows[i]]

\* cleaner.py 136: df_dedup.drop('dedup_key', axis=1)
DropKey(rows) ==
    [i \in DOMAIN rows |->
        [c \in (DOMAIN rows[i]) \ {"dedup_key"} |-> rows[i][c]]]

\* A faulty variant: drop_duplicates(keep='last').
DropDuplicatesKeepLast(rows) ==
    Pick(rows, {i \in DOMAIN rows :
                   ~\E j \in DOMAIN rows :
                       j > i /\ rows[j].dedup_key = rows[i].dedup_key})

\* A faulty variant: a hand-written loop that stops after the first duplicate.
DropFirstDuplicateOnly(rows) ==
    LET dups == {i \in DOMAIN rows :
                    \E j \in DOMAIN rows :
                        j < i /\ rows[j].dedup_key = rows[i].dedup_key}
    IN  Pick(rows, (DOMAIN rows) \ (IF dups = {} THEN {} ELSE {Min(dups)}))

\* cleaner.py 133: df.drop_duplicates(subset='dedup_key', keep='first')
drop_duplicates(rows) ==
    Pick(rows, {i \in DOMAIN rows :
                   ~\E j \in DOMAIN rows :
                       j < i /\ rows[j].dedup_key = rows[i].dedup_key})

\* cleaner.py 122-141: the table returned
remove_duplicates(rows) == DropKey(drop_duplicates(AddKey(rows)))

Titles == {<<"a">>, <<"A">>, <<"a", "_", "b">>, NA}
Suppliers == {<<>>, <<"b", "_">>, <<"B", "_">>, NA}

MakeTable(cells) ==
    [i \in DOMAIN cells |->
        [idx |-> i, title |-> cells[i][1], supplier_name |-> cells[i][2]]]

Tables == {MakeTable(c) : c \in SeqsUpTo(Titles \X Suppliers, MaxRows)}

IdleDedup == input = <<>> /\ df = <<>> /\ runs = 0 /\ removed = 0
IdleSim ==
    simDf = <<>> /\ threshold = 0 /\ flags = <<>> /\ simDone = FALSE /\ simError = FALSE
IdlePrice == priceText = <<>> /\ priceInfo = NoResult
IdleLoc == locText = <<>> /\ locInfo = NoResult
IdleJac == jacTexts = <<>> /\ jacResult = NoResult
IdleRec == fragment = NoResult /\ record = NoResult
IdlePage ==
    page = NoResult /\ product_elements = <<>> /\ products = <<>> /\ pageDone = FALSE
IdleLinks == anchors = <<>> /\ urls = NoResult
IdleCleaner == method = "" /\ table = NoResult /\ cleaned = NoResult
IdleScraper ==
    /\ entry = NoResult /\ pc = "" /\ max_products = 0 /\ url_index = 0
    /\ scraped_data = <<>>
    /\ requested = <<>> /\ max_retries = 0 /\ attempt = 0
    /\ outcomes = <<>> /\ response = NoResult

InitDedup ==
    /\ input \in Tables
    /\ df = input
    /\ runs = 0
    /\ removed = 0
    /\ IdleSim /\ IdlePrice /\ IdleLoc /\ IdleJac /\ IdleRec /\ IdlePage
    /\ IdleLinks /\ IdleCleaner /\ IdleScraper

\* One call of remove_duplicates on the current table.
RemoveDuplicates ==
    /\ runs < MaxRuns
    /\ df' = remove_duplicates(df)
    /\ removed' = Len(df) - Len(df')
    /\ runs' = runs + 1
    /\ UNCHANGED <<input, simVars, priceVars, locVars, jacVars, recVars, pageVars,
                   linkVars, cleanerVars, requestVars, scrapeVars>>

NextDedup == RemoveDuplicates

SpecDedup == InitDedup /\ [][NextDedup]_vars

(***************************************************************************)
(* Exact rationals <<num, den>>, den > 0, standing for the floats.         *)
(***************************************************************************)
RECURSIVE Gcd(_, _)
Gcd(a, b) == IF b = 0 THEN a ELSE Gcd(b, a % b)
Abs(n) == IF n < 0 THEN 0 - n ELSE n
\* The rational in lowest terms, so that equal values are equal tuples
RatNorm(a) ==
    LET g == Gcd(Abs(a[1]), a[2]) IN <<a[1] \div g, a[2] \div g>>
RatAdd(a, b) == RatNorm(<<a[1] * b[2] + b[1] * a[2], a[2] * b[2]>>)
RatSub(a, b) == RatNorm(<<a[1] * b[2] - b[1] * a[2], a[2] * b[2]>>)
RatMul(a, b) == RatNorm(<<a[1] * b[1], a[2] * b[2]>>)
\* a / b for b > 0
RatDiv(a, b) == RatNorm(<<a[1] * b[2], a[2] * b[1]>>)
RatLeq(a, b) == a[1] * b[2] <= b[1] * a[2]
RatLt(a, b) == a[1] * b[2] < b[1] * a[2]
RatAbs(a) == IF a[1] < 0 THEN <<0 - a[1], a[2]>> ELSE a
RatMax(a, b) == IF RatLeq(a, b) THEN b ELSE a

(***************************************************************************)
(* calculate_text_similarity and detect_duplicate_products (utils.py).     *)
(***************************************************************************)
\* utils.py 249-271: Jaccard similarity of the two word sets
calculate_text_similarity(text1, text2) ==
    IF text1 = <<>> \/ text2 = <<>> THEN <<0, 1>>
    ELSE LET words1 == WordSet(Lower(text1))
             words2 == WordSet(Lower(text2))
             intersection == Cardinality(words1 \cap words2)
             union == Cardinality(words1 \cup words2)
         IN  IF union > 0 THEN RatDiv(<<intersection, 1>>, <<union, 1>>) ELSE <<0, 1>>

\* utils.py 317-326: price_sim of two rows
price_sim(row1, row2) ==
    IF /\ ~IsNA(row1.numeric_price)
       /\ ~IsNA(row2.numeric_price)
       /\ RatLt(<<0, 1>>, row1.numeric_price)
       /\ RatLt(<<0, 1>>, row2.numeric_price)
    THEN LET price_diff == RatAbs(RatSub(row1.numeric_price, row2.numeric_price))
             avg_price == RatDiv(RatAdd(row1.numeric_price, row2.numeric_price),
                                 <<2, 1>>)
         IN  RatMax(<<0, 1>>, RatSub(<<1, 1>>, RatDiv(price_diff, avg_price)))
    ELSE <<0, 1>>

\* A faulty variant: the two weights exchanged.
CombinedSimSwappedWeights(row1, row2) ==
    LET title_sim == calculate_text_similarity(PyStr(row1.title), PyStr(row2.title))
    IN  RatAdd(RatMul(title_sim, <<2, 10>>),
               RatMul(price_sim(row1, row2), <<8, 10>>))

\* utils.py 312-329: combined_sim of two rows
combined_sim(row1, row2) ==
    LET title_sim == calculate_text_similarity(PyStr(row1.title), PyStr(row2.title))
    IN  RatAdd(RatMul(title_sim, <<8, 10>>),
               RatMul(price_sim(row1, row2), <<2, 10>>))

\* utils.py 333: the log line slices both titles; a missing title is a
\* float, and slicing it raises TypeError
LogRaises(row1, row2) == IsNA(row1.title) \/ IsNA(row2.title)

\* utils.py 308-333: the inner loop of row i over the rows js of its
\* supplier; st holds the is_duplicate column and whether the call raised
RECURSIVE InnerLoop(_, _, _, _, _)
InnerLoop(rows, th, i, js, st) ==
    IF js = <<>> \/ st.raised THEN st
    ELSE LET j == Head(js)
             next ==
                 IF rows[i].idx >= rows[j].idx \/ st.is_duplicate[j] THEN st
                 ELSE IF RatLeq(<<th, 100>>, combined_sim(rows[i], rows[j]))
                      THEN [is_duplicate |-> [st.is_duplicate EXCEPT ![j] = TRUE],
                            raised |-> LogRaises(rows[i], rows[j])]
                      ELSE st
         IN  InnerLoop(rows, th, i, Tail(js), next)

\* A faulty variant: the outer loop without the check of line 305.
RECURSIVE OuterLoopNoSkip(_, _, _, _, _)
OuterLoopNoSkip(rows, th, is, part, st) ==
    IF is = <<>> \/ st.raised THEN st
    ELSE OuterLoopNoSkip(rows, th, Tail(is), part,
                         InnerLoop(rows, th, Head(is), part, st))

\* utils.py 304-306: the outer loop over the rows of one supplier
RECURSIVE OuterLoop(_, _, _, _, _)
OuterLoop(rows, th, is, part, st) ==
    IF is = <<>> \/ st.raised THEN st
    ELSE LET i == Head(is)
         IN  OuterLoop(rows, th, Tail(is), part,
                       IF st.is_duplicate[i] THEN st
                       ELSE InnerLoop(rows, th, i, part, st))

\* df['supplier_name'].unique(): the values in order of first appearance
UniqueSuppliers(rows) ==
    LET first == {i \in DOMAIN rows :
                     ~\E j \in DOMAIN rows :
                         j < i /\ rows[j].supplier_name = rows[i].supplier_name}
        firstRows == Pick(rows, first)
    IN  [k \in DOMAIN firstRows |-> firstRows[k].supplier_name]

\* The positions, in order, of the rows of S
Positions(S) ==
    [k \in 1..Cardinality(S) |->
        CHOOSE i \in S : Cardinality({j \in S : j < i}) = k - 1]

\* df['supplier_name'] == supplier: a comparison with NaN is False
PdEq(a, b) == ~IsNA(a) /\ ~IsNA(b) /\ a = b

\* A faulty variant: the supplier column is filled with '' before grouping,
\* as remove_duplicates does, so rows with no supplier form a partition.
RECURSIVE SupplierLoopFillNa(_, _, _, _)
SupplierLoopFillNa(rows, th, suppliers, st) ==
    IF suppliers = <<>> \/ st.raised THEN st
    ELSE LET supplier == Head(suppliers)
             part == Positions({i \in DOMAIN rows :
                                   FillNa(rows[i].supplier_name) = FillNa(supplier)})
         IN  SupplierLoopFillNa(rows, th, Tail(suppliers),
                                IF Len(part) < 2 THEN st
                                ELSE OuterLoop(rows, th, part, part, st))

\* utils.py 294-301: the loop over the suppliers
RECURSIVE SupplierLoop(_, _, _, _)
SupplierLoop(rows, th, suppliers, st) ==
    IF suppliers = <<>> \/ st.raised THEN st
    ELSE LET supplier == Head(suppliers)
             part == Positions({i \in DOMAIN rows :
                                   PdEq(rows[i].supplier_name, supplier)})
         IN  SupplierLoop(rows, th, Tail(suppliers),
                          IF IsNA(supplier) \/ Len(part) < 2 THEN st
                          ELSE OuterLoop(rows, th, part, part, st))

\* utils.py 273-336: the is_duplicate column of the table returned, or
\* raised when the call ends in the TypeError of line 333
detect_duplicate_products(rows, th) ==
    LET allFalse == [is_duplicate |-> [i \in DOMAIN rows |-> FALSE],
                     raised |-> FALSE]
    IN  IF Len(rows) < 2 THEN allFalse
        ELSE SupplierLoop(rows, th, UniqueSuppliers(rows), allFalse)

\* utils.py 273: the default similarity_threshold, in 1/100
DefaultThreshold == 70

SimSuppliers == {NA, <<"s">>, <<"t">>}
SimCells ==
    {<<<<"a", " ", "b">>, NA>>, <<<<"a", " ", "b">>, <<0, 1>>>>, <<<<"a", " ", "b">>, <<10, 1>>>>,
     <<<<"a", " ", "b">>, <<20, 1>>>>, <<<<"A">>, <<10, 1>>>>, <<<<>>, <<10, 1>>>>,
     <<NA, <<10, 1>>>>}
Thresholds == {20, DefaultThreshold, 80, 100}

MakeSimTable(cells) ==
    [i \in DOMAIN cells |->
        [idx |-> i, supplier_name |-> cells[i][1],
         title |-> cells[i][2][1], numeric_price |-> cells[i][2][2]]]

SimTables == {MakeSimTable(c) : c \in SeqsUpTo(SimSuppliers \X SimCells, MaxSimRows)}

InitSim ==
    /\ simDf \in SimTables
    /\ threshold \in Thresholds
    /\ flags = <<>>
    /\ simDone = FALSE
    /\ simError = FALSE
    /\ IdleDedup /\ IdlePrice /\ IdleLoc /\ IdleJac /\ IdleRec /\ IdlePage
    /\ IdleLinks /\ IdleCleaner /\ IdleScraper

\* One call of detect_duplicate_products(simDf, threshold).
DetectDuplicates ==
    /\ simDone = FALSE
    /\ LET result == detect_duplicate_products(simDf, threshold)
       IN  /\ flags' = IF result.raised THEN <<>> ELSE result.is_duplicate
           /\ simError' = result.raised
    /\ simDone' = TRUE
    /\ UNCHANGED <<dedupVars, simDf, threshold, priceVars, locVars, jacVars,
                   recVars, pageVars,
                   linkVars, cleanerVars, requestVars, scrapeVars>>

NextSim == DetectDuplicates

SpecSim == InitSim /\ [][NextSim]_vars

(***************************************************************************)
(* clean_price_text and extract_price_unit (utils.py 13-96).               *)
(*                                                                         *)
(* The regular expressions are matched as re.search matches them: at the   *)
(* leftmost start, each greedy item taking the longest text for which the  *)
(* rest of the pattern still matches.                                      *)
(***************************************************************************)
Rupee == "₹"

\* s[b..e] matches \d+(?:,\d+)*(?:\.\d+)? : digit groups joined by commas,
\* then at most one fraction.
IsNum(s, b, e) ==
    /\ 1 <= b /\ b <= e /\ e <= Len(s)
    /\ s[b] \in Digits /\ s[e] \in Digits
    /\ \A k \in b..e : s[k] \in Digits \cup {",", "."}
    /\ \A k \in b..(e - 1) : s[k] \in {",", "."} => s[k + 1] \in Digits
    /\ \A k \in b..e : s[k] = "." => \A m \in (k + 1)..e : s[m] \in Digits

\* The ends of the matches of the number pattern that start at b,
\* with and without the comma groups
NumEndsNoThousands(s, b) ==
    {e \in b..Len(s) : IsNum(s, b, e) /\ \A k \in b..e : s[k] # ","}
NumEnds(s, b) == {e \in b..Len(s) : IsNum(s, b, e)}

\* s[b..e] matches \s*[-to]\s*₹?\s* under re.I
IsRangeSeparator(s, b, e) ==
    \E k \in b..e :
        /\ LowerChar(s[k]) \in {"-", "t", "o"}
        /\ \A m \in b..(k - 1) : s[m] \in Whitespace
        /\ \E r \in k..e :
              /\ \A m \in (k + 1)..r : s[m] \in Whitespace
              /\ \/ r = e
                 \/ /\ s[r + 1] = Rupee
                    /\ \A m \in (r + 2)..e : s[m] \in Whitespace

\* The first digit after position e, or 0
NextDigit(s, e) ==
    LET ds == {k \in (e + 1)..Len(s) : s[k] \in Digits}
    IN  IF ds = {} THEN 0 ELSE Min(ds)

\* utils.py 35: the groups <<b1, e1, b2, e2>> of the range pattern whose
\* first number starts at b1, or <<>>.  The first number is the longest one
\* after which the separator and a second number follow; the second number
\* is the longest one.
RangeMatchAt(s, b1) ==
    LET ends == {e1 \in NumEnds(s, b1) :
                    LET b2 == NextDigit(s, e1)
                    IN  b2 # 0 /\ IsRangeSeparator(s, e1 + 1, b2 - 1)}
    IN  IF ends = {} THEN <<>>
        ELSE LET e1 == Max(ends)
                 b2 == NextDigit(s, e1)
             IN  <<b1, e1, b2, Max(NumEnds(s, b2))>>

\* utils.py 35: re.search of the range pattern.  The prefix ₹?\s* holds no
\* digit, so the leftmost match is the one whose first number starts first.
range_match(s) ==
    LET starts == {b1 \in DOMAIN s : s[b1] \in Digits /\ RangeMatchAt(s, b1) # <<>>}
    IN  IF starts = {} THEN <<>> ELSE RangeMatchAt(s, Min(starts))

\* A faulty variant: the single-price pattern without (?:,\d+)*.
PriceMatchNoThousands(s) ==
    LET starts == {b \in DOMAIN s : s[b] \in Digits}
    IN  IF starts = {} THEN <<>>
        ELSE <<Min(starts), Max(NumEndsNoThousands(s, Min(starts)))>>

\* utils.py 52: re.search of the single-price pattern: group 1 as <<b, e>>
price_match(s) ==
    LET starts == {b \in DOMAIN s : s[b] \in Digits}
    IN  IF starts = {} THEN <<>>
        ELSE <<Min(starts), Max(NumEnds(s, Min(starts)))>>

\* str.replace(',', '')
RECURSIVE RemoveCommas(_)
RemoveCommas(t) ==
    IF t = <<>> THEN <<>>
    ELSE IF Head(t) = "," THEN RemoveCommas(Tail(t))
         ELSE <<Head(t)>> \o RemoveCommas(Tail(t))

DigitValue(c) ==
    CASE c = "0" -> 0 [] c = "1" -> 1 [] c = "2" -> 2 [] c = "3" -> 3
      [] c = "4" -> 4 [] c = "5" -> 5 [] c = "6" -> 6 [] c = "7" -> 7
      [] c = "8" -> 8 [] c = "9" -> 9

RECURSIVE Pow10(_)
Pow10(n) == IF n = 0 THEN 1 ELSE 10 * Pow10(n - 1)

\* int() of a run of digits
RECURSIVE DigitsToInt(_)
DigitsToInt(t) ==
    IF t = <<>> THEN 0
    ELSE 10 * DigitsToInt(SubSeq(t, 1, Len(t) - 1)) + DigitValue(t[Len(t)])

\* float() of digits with at most one decimal point
ToFloat(t) ==
    LET dots == {k \in DOMAIN t : t[k] = "."}
    IN  IF dots = {} THEN <<DigitsToInt(t), 1>>
        ELSE LET d == Min(dots)
             IN  RatNorm(<<DigitsToInt(SubSeq(t, 1, d - 1) \o SubSeq(t, d + 1, Len(t))),
                           Pow10(Len(t) - d)>>)

\* utils.py 37, 38, 55: float(group.replace(',', ''))
GroupValue(s, b, e) == ToFloat(RemoveCommas(SubSeq(s, b, e)))

\* The longest run of \w characters that starts at b
WordEnd(s, b) ==
    Max({e \in b..Len(s) : \A k \in b..e : s[k] \in WordChars})

\* utils.py 72: the group of the leftmost match of per\s+(\w+), or <<>>
PerUnitMatch(s) ==
    LET starts == {i \in DOMAIN s :
                      /\ i + 3 <= Len(s)
                      /\ SubSeq(s, i, i + 2) = <<"p", "e", "r">>
                      /\ s[i + 3] \in Whitespace
                      /\ \E k \in (i + 4)..Len(s) :
                            /\ s[k] \in WordChars
                            /\ \A m \in (i + 3)..(k - 1) : s[m] \in Whitespace}
    IN  IF starts = {} THEN <<>>
        ELSE LET i == Min(starts)
                 k == Min({m \in (i + 4)..Len(s) : s[m] \notin Whitespace})
             IN  <<SubSeq(s, k, WordEnd(s, k))>>

\* utils.py 73: the group of the leftmost match of /(\w+), or <<>>
SlashUnitMatch(s) ==
    LET starts == {i \in DOMAIN s :
                      i + 1 <= Len(s) /\ s[i] = "/" /\ s[i + 1] \in WordChars}
    IN  IF starts = {} THEN <<>>
        ELSE <<SubSeq(s, Min(starts) + 1, WordEnd(s, Min(starts) + 1))>>

\* utils.py 74: the group of the leftmost match of (\w+)\s*$, or <<>>
TrailingWordMatch(s) ==
    LET starts == {i \in DOMAIN s :
                      \E e \in i..Len(s) :
                          /\ \A k \in i..e : s[k] \in WordChars
                          /\ \A k \in (e + 1)..Len(s) : s[k] \in Whitespace}
    IN  IF starts = {} THEN <<>>
        ELSE <<SubSeq(s, Min(starts), WordEnd(s, Min(starts)))>>

\* utils.py 84-93: unit_mapping
unit_mapping ==
    (<<"p", "c">> :> <<"p", "i", "e", "c", "e">>) @@ (<<"p", "c", "s">> :> <<"p", "i", "e", "c", "e">>) @@ (<<"p", "i", "e", "c", "e">> :> <<"p", "i", "e", "c", "e">>)
    @@ (<<"k", "g">> :> <<"k", "i", "l", "o", "g", "r", "a", "m">>) @@ (<<"k", "i", "l", "o", "g", "r", "a", "m">> :> <<"k", "i", "l", "o", "g", "r", "a", "m">>)
    @@ (<<"g", "r", "a", "m">> :> <<"g", "r", "a", "m">>) @@ (<<"g", "m">> :> <<"g", "r", "a", "m">>)
    @@ (<<"t", "o", "n">> :> <<"t", "o", "n">>) @@ (<<"t", "o", "n", "n", "e">> :> <<"t", "o", "n">>)
    @@ (<<"m", "e", "t", "e", "r">> :> <<"m", "e", "t", "e", "r">>) @@ (<<"m", "e", "t", "r", "e">> :> <<"m", "e", "t", "e", "r">>) @@ (<<"m">> :> <<"m", "e", "t", "e", "r">>)
    @@ (<<"f", "e", "e", "t">> :> <<"f", "e", "e", "t">>) @@ (<<"f", "o", "o", "t">> :> <<"f", "e", "e", "t">>) @@ (<<"f", "t">> :> <<"f", "e", "e", "t">>)
    @@ (<<"l", "i", "t", "r", "e">> :> <<"l", "i", "t", "e", "r">>) @@ (<<"l", "i", "t", "e", "r">> :> <<"l", "i", "t", "e", "r">>) @@ (<<"l">> :> <<"l", "i", "t", "e", "r">>)
    @@ (<<"d", "o", "z", "e", "n">> :> <<"d", "o", "z", "e", "n">>) @@ (<<"p", "a", "i", "r">> :> <<"p", "a", "i", "r">>) @@ (<<"s", "e", "t">> :> <<"s", "e", "t">>)

\* utils.py 94: unit_mapping.get(unit, unit)
MapUnit(unit) == IF unit \in DOMAIN unit_mapping THEN unit_mapping[unit] ELSE unit

\* utils.py 65-96
extract_price_unit(price_text) ==
    IF price_text = <<>> THEN <<>>
    ELSE LET price_lower == Lower(price_text)
             m1 == PerUnitMatch(price_lower)
             m2 == SlashUnitMatch(price_lower)
             m3 == TrailingWordMatch(price_lower)
         IN  IF m1 # <<>> THEN MapUnit(m1[1])
             ELSE IF m2 # <<>> THEN MapUnit(m2[1])
             ELSE IF m3 # <<>> THEN MapUnit(m3[1])
             ELSE <<>>

\* A faulty variant: the average written min + max / 2.
RangeResultBadAverage(text, m) ==
    LET min_price == GroupValue(text, m[1], m[2])
        max_price == GroupValue(text, m[3], m[4])
    IN  [raw_price |-> text,
         numeric_price |-> RatAdd(min_price, RatDiv(max_price, <<2, 1>>)),
         min_price |-> min_price,
         max_price |-> max_price,
         currency |-> "INR",
         unit |-> extract_price_unit(text),
         is_range |-> TRUE]

\* utils.py 36-49: the dict returned for a range
range_result(text, m) ==
    LET min_price == GroupValue(text, m[1], m[2])
        max_price == GroupValue(text, m[3], m[4])
    IN  [raw_price |-> text,
         numeric_price |-> RatDiv(RatAdd(min_price, max_price), <<2, 1>>),
         min_price |-> min_price,
         max_price |-> max_price,
         currency |-> "INR",
         unit |-> extract_price_unit(text),
         is_range |-> TRUE]

\* utils.py 13-63.  A key the dict does not hold (min_price, max_price
\* outside a range) is NA here.
clean_price_text(price_text) ==
    IF price_text = <<>>
    THEN [raw_price |-> <<>>, numeric_price |-> NA, min_price |-> NA,
          max_price |-> NA, currency |-> "INR", unit |-> <<>>, is_range |-> FALSE]
    ELSE LET text == Strip(price_text)
             rm == range_match(text)
             pm == price_match(text)
         IN  IF rm # <<>> THEN range_result(text, rm)
             ELSE [raw_price |-> text,
                   numeric_price |->
                       IF pm # <<>> THEN GroupValue(text, pm[1], pm[2]) ELSE NA,
                   min_price |-> NA,
                   max_price |-> NA,
                   currency |-> "INR",
                   unit |-> extract_price_unit(text),
                   is_range |-> FALSE]

PriceParts ==
    {<<Rupee>>, <<"1", "2">>, <<"1", ",", "2", "0", "0">>, <<Rupee>> \o <<"1", ",", "8", "0", "0">>, <<"0", ".", "5">>, <<" ", "-", " ">>,
     <<" ", "t", "o", " ">>, <<"o">>, <<" ">>, <<" ", "p", "e", "r", " ", "k", "g">>, <<"/", "P", "c">>}

DigitCount(s) == Cardinality({k \in DOMAIN s : s[k] \in Digits})

PriceTexts ==
    {t \in {Concat(p) : p \in SeqsUpTo(PriceParts, MaxPriceParts)} :
        DigitCount(t) <= MaxPriceDigits}

InitPrice ==
    /\ priceText \in PriceTexts
    /\ priceInfo = NoResult
    /\ IdleDedup /\ IdleSim /\ IdleLoc /\ IdleJac /\ IdleRec /\ IdlePage
    /\ IdleLinks /\ IdleCleaner /\ IdleScraper

\* One call of clean_price_text(priceText).
CleanPriceText ==
    /\ priceInfo = NoResult
    /\ priceInfo' = clean_price_text(priceText)
    /\ UNCHANGED <<dedupVars, simVars, priceText, locVars, jacVars, recVars, pageVars,
                   linkVars, cleanerVars, requestVars, scrapeVars>>

NextPrice == CleanPriceText

SpecPrice == InitPrice /\ [][NextPrice]_vars

(***************************************************************************)
(* normalize_location (utils.py 98-170).                                   *)
(***************************************************************************)
\* utils.py 114-150: indian_states, the <<key, state>> pairs in the order of
\* the dict literal (the order in which the loop of line 156 visits them)
indian_states ==
    <<<<<<"a", "n", "d", "h", "r", "a", " ", "p", "r", "a", "d", "e", "s", "h">>, <<"A", "n", "d", "h", "r", "a", " ", "P", "r", "a", "d", "e", "s", "h">>>>,
     <<<<"a", "p">>, <<"A", "n", "d", "h", "r", "a", " ", "P", "r", "a", "d", "e", "s", "h">>>>,
     <<<<"a", "r", "u", "n", "a", "c", "h", "a", "l", " ", "p", "r", "a", "d", "e", "s", "h">>, <<"A", "r", "u", "n", "a", "c", "h", "a", "l", " ", "P", "r", "a", "d", "e", "s", "h">>>>,
     <<<<"a", "s", "s", "a", "m">>, <<"A", "s", "s", "a", "m">>>>,
     <<<<"b", "i", "h", "a", "r">>, <<"B", "i", "h", "a", "r">>>>,
     <<<<"c", "h", "h", "a", "t", "t", "i", "s", "g", "a", "r", "h">>, <<"C", "h", "h", "a", "t", "t", "i", "s", "g", "a", "r", "h">>>>,
     <<<<"g", "o", "a">>, <<"G", "o", "a">>>>,
     <<<<"g", "u", "j", "a", "r", "a", "t">>, <<"G", "u", "j", "a", "r", "a", "t">>>>,
     <<<<"h", "a", "r", "y", "a", "n", "a">>, <<"H", "a", "r", "y", "a", "n", "a">>>>,
     <<<<"h", "i", "m", "a", "c", "h", "a", "l", " ", "p", "r", "a", "d", "e", "s", "h">>, <<"H", "i", "m", "a", "c", "h", "a", "l", " ", "P", "r", "a", "d", "e", "s", "h">>>>,
     <<<<"h", "p">>, <<"H", "i", "m", "a", "c", "h", "a", "l", " ", "P", "r", "a", "d", "e", "s", "h">>>>,
     <<<<"j", "h", "a", "r", "k", "h", "a", "n", "d">>, <<"J", "h", "a", "r", "k", "h", "a", "n", "d">>>>,
     <<<<"k", "a", "r", "n", "a", "t", "a", "k", "a">>, <<"K", "a", "r", "n", "a", "t", "a", "k", "a">>>>,
     <<<<"k", "e", "r", "a", "l", "a">>, <<"K", "e", "r", "a", "l", "a">>>>,
     <<<<"m", "a", "d", "h", "y", "a", " ", "p", "r", "a", "d", "e", "s", "h">>, <<"M", "a", "d", "h", "y", "a", " ", "P", "r", "a", "d", "e", "s", "h">>>>,
     <<<<"m", "p">>, <<"M", "a", "d", "h", "y", "a", " ", "P", "r", "a", "d", "e", "s", "h">>>>,
     <<<<"m", "a", "h", "a", "r", "a", "s", "h", "t", "r", "a">>, <<"M", "a", "h", "a", "r", "a", "s", "h", "t", "r", "a">>>>,
     <<<<"m", "a", "n", "i", "p", "u", "r">>, <<"M", "a", "n", "i", "p", "u", "r">>>>,
     <<<<"m", "e", "g", "h", "a", "l", "a", "y", "a">>, <<"M", "e", "g", "h", "a", "l", "a", "y", "a">>>>,
     <<<<"m", "i", "z", "o", "r", "a", "m">>, <<"M", "i", "z", "o", "r", "a", "m">>>>,
     <<<<"n", "a", "g", "a", "l", "a", "n", "d">>, <<"N", "a", "g", "a", "l", "a", "n", "d">>>>,
     <<<<"o", "d", "i", "s", "h", "a">>, <<"O", "d", "i", "s", "h", "a">>>>,
     <<<<"o", "r", "i", "s", "s", "a">>, <<"O", "d", "i", "s", "h", "a">>>>,
     <<<<"p", "u", "n", "j", "a", "b">>, <<"P", "u", "n", "j", "a", "b">>>>,
     <<<<"r", "a", "j", "a", "s", "t", "h", "a", "n">>, <<"R", "a", "j", "a", "s", "t", "h", "a", "n">>>>,
     <<<<"s", "i", "k", "k", "i", "m">>, <<"S", "i", "k", "k", "i", "m">>>>,
     <<<<"t", "a", "m", "i", "l", " ", "n", "a", "d", "u">>, <<"T", "a", "m", "i", "l", " ", "N", "a", "d", "u">>>>,
     <<<<"t", "n">>, <<"T", "a", "m", "i", "l", " ", "N", "a", "d", "u">>>>,
     <<<<"t", "e", "l", "a", "n", "g", "a", "n", "a">>, <<"T", "e", "l", "a", "n", "g", "a", "n", "a">>>>,
     <<<<"t", "r", "i", "p", "u", "r", "a">>, <<"T", "r", "i", "p", "u", "r", "a">>>>,
     <<<<"u", "t", "t", "a", "r", " ", "p", "r", "a", "d", "e", "s", "h">>, <<"U", "t", "t", "a", "r", " ", "P", "r", "a", "d", "e", "s", "h">>>>,
     <<<<"u", "p">>, <<"U", "t", "t", "a", "r", " ", "P", "r", "a", "d", "e", "s", "h">>>>,
     <<<<"u", "t", "t", "a", "r", "a", "k", "h", "a", "n", "d">>, <<"U", "t", "t", "a", "r", "a", "k", "h", "a", "n", "d">>>>,
     <<<<"w", "e", "s", "t", " ", "b", "e", "n", "g", "a", "l">>, <<"W", "e", "s", "t", " ", "B", "e", "n", "g", "a", "l">>>>,
     <<<<"w", "b">>, <<"W", "e", "s", "t", " ", "B", "e", "n", "g", "a", "l">>>>,
     <<<<"d", "e", "l", "h", "i">>, <<"D", "e", "l", "h", "i">>>>,
     <<<<"n", "e", "w", " ", "d", "e", "l", "h", "i">>, <<"D", "e", "l", "h", "i">>>>,
     <<<<"m", "u", "m", "b", "a", "i">>, <<"M", "a", "h", "a", "r", "a", "s", "h", "t", "r", "a">>>>,
     <<<<"b", "a", "n", "g", "a", "l", "o", "r", "e">>, <<"K", "a", "r", "n", "a", "t", "a", "k", "a">>>>,
     <<<<"c", "h", "e", "n", "n", "a", "i">>, <<"T", "a", "m", "i", "l", " ", "N", "a", "d", "u">>>>,
     <<<<"k", "o", "l", "k", "a", "t", "a">>, <<"W", "e", "s", "t", " ", "B", "e", "n", "g", "a", "l">>>>,
     <<<<"h", "y", "d", "e", "r", "a", "b", "a", "d">>, <<"T", "e", "l", "a", "n", "g", "a", "n", "a">>>>,
     <<<<"p", "u", "n", "e">>, <<"M", "a", "h", "a", "r", "a", "s", "h", "t", "r", "a">>>>,
     <<<<"a", "h", "m", "e", "d", "a", "b", "a", "d">>, <<"G", "u", "j", "a", "r", "a", "t">>>>,
     <<<<"s", "u", "r", "a", "t">>, <<"G", "u", "j", "a", "r", "a", "t">>>>,
     <<<<"j", "a", "i", "p", "u", "r">>, <<"R", "a", "j", "a", "s", "t", "h", "a", "n">>>>,
     <<<<"l", "u", "c", "k", "n", "o", "w">>, <<"U", "t", "t", "a", "r", " ", "P", "r", "a", "d", "e", "s", "h">>>>,
     <<<<"k", "a", "n", "p", "u", "r">>, <<"U", "t", "t", "a", "r", " ", "P", "r", "a", "d", "e", "s", "h">>>>,
     <<<<"n", "a", "g", "p", "u", "r">>, <<"M", "a", "h", "a", "r", "a", "s", "h", "t", "r", "a">>>>>>

\* utils.py 156-159: the position of the first key found in the text, or 0
FirstMatchingKey(location_lower) ==
    LET hits == {k \in DOMAIN indian_states :
                    Contains(location_lower, indian_states[k][1])}
    IN  IF hits = {} THEN 0 ELSE Min(hits)

\* utils.py 162-163: re.match(r'^([^,]+)', text), then group(1).strip()
ExtractCity(text) ==
    IF text = <<>> \/ text[1] = "," THEN <<>>
    ELSE LET commas == {k \in DOMAIN text : text[k] = ","}
         IN  Strip(SubSeq(text, 1, IF commas = {} THEN Len(text)
                                   ELSE Min(commas) - 1))

\* utils.py 98-170
normalize_location(location_text) ==
    IF location_text = <<>>
    THEN [raw_location |-> <<>>, city |-> <<>>, state |-> <<>>, normalized |-> <<>>]
    ELSE LET text == Strip(location_text)
             k == FirstMatchingKey(Lower(text))
             extracted_state == IF k = 0 THEN <<>> ELSE indian_states[k][2]
             city == ExtractCity(text)
         IN  [raw_location |-> text,
              city |-> city,
              state |-> extracted_state,
              normalized |->
                  IF city # <<>> /\ extracted_state # <<>>
                  THEN city \o <<",", " ">> \o extracted_state
                  ELSE text]

LocParts ==
    {<<"K", "a", "p", "u", "r", "t", "h", "a", "l", "a">>, <<"R", "u", "p", "n", "a", "g", "a", "r">>, <<"P", "u", "n", "e">>, <<"H", "y", "d", "e", "r", "a", "b", "a", "d">>, <<",", " ", "P", "u", "n", "j", "a", "b">>,
     <<",", " ", "U", "P">>, <<",", " ", "A", "P">>, <<",", " ">>, <<",">>, <<" ">>}

LocTexts == {Concat(p) : p \in SeqsUpTo(LocParts, MaxLocParts)}

InitLoc ==
    /\ locText \in LocTexts
    /\ locInfo = NoResult
    /\ IdleDedup /\ IdleSim /\ IdlePrice /\ IdleJac /\ IdleRec /\ IdlePage
    /\ IdleLinks /\ IdleCleaner /\ IdleScraper

\* One call of normalize_location(locText).
NormalizeLocation ==
    /\ locInfo = NoResult
    /\ locInfo' = normalize_location(locText)
    /\ UNCHANGED <<dedupVars, simVars, priceVars, locText, jacVars, recVars, pageVars,
                   linkVars, cleanerVars, requestVars, scrapeVars>>

NextLoc == NormalizeLocation

SpecLoc == InitLoc /\ [][NextLoc]_vars

(***************************************************************************)
(* calculate_text_similarity called on its own (utils.py 249-271).         *)
(***************************************************************************)
JacParts == {<<"a">>, <<"b">>, <<"A">>, <<" ">>}

JacStrings == {Concat(p) : p \in SeqsUpTo(JacParts, MaxJacParts)}

InitJac ==
    /\ jacTexts \in JacStrings \X JacStrings
    /\ jacResult = NoResult
    /\ IdleDedup /\ IdleSim /\ IdlePrice /\ IdleLoc /\ IdleRec /\ IdlePage
    /\ IdleLinks /\ IdleCleaner /\ IdleScraper

\* One call of calculate_text_similarity(jacTexts[1], jacTexts[2]).
CalculateTextSimilarity ==
    /\ jacResult = NoResult
    /\ jacResult' =
           [similarity |-> calculate_text_similarity(jacTexts[1], jacTexts[2])]
    /\ UNCHANGED <<dedupVars, simVars, priceVars, locVars, jacTexts, recVars, pageVars,
                   linkVars, cleanerVars, requestVars, scrapeVars>>

NextJac == CalculateTextSimilarity

SpecJac == InitJac /\ [][NextJac]_vars

(***************************************************************************)
(* IndiaMartScraper (indiamart_scraper.py).                                *)
(*                                                                         *)
(* A listing fragment is what the calls on the element return: for each    *)
(* field the result of select_one for each selector of the field's list    *)
(* (NoElement, or the text of the element found), the first img and the    *)
(* first a of the fragment with their attributes (NA: attribute not set),  *)
(* and the field, if any, whose read raises an exception.                  *)
(***************************************************************************)
NoElement == <<"<None>">>

\* indiamart_scraper.py 13
base_url == <<"h", "t", "t", "p", "s", ":", "/", "/", "w", "w", "w", ".", "i", "n", "d", "i", "a", "m", "a", "r", "t", ".", "c", "o", "m">>

\* indiamart_scraper.py 86, 98, 109, 118, 144: the selector lists
title_selectors == <<".prd-name", ".lst-name", ".product-name", "h3", "h4", ".title">>
price_selectors == <<".prd-price", ".lst-price", ".price", ".prd-prc">>
supplier_selectors == <<".prd-comp", ".lst-comp", ".company-name", ".supplier">>
location_selectors == <<".prd-loc", ".lst-loc", ".location", ".city">>
desc_selectors == <<".prd-desc", ".description", ".details">>

\* The character U+201A, second of the three characters the pattern of
\* indiamart_scraper.py 29 opens with
LowQuote == "<U+201A>"

\* re.sub(r'\s+', ' ', s): every run of whitespace becomes one space
RECURSIVE CollapseWhitespace(_)
CollapseWhitespace(s) ==
    IF s = <<>> THEN <<>>
    ELSE IF s[1] \in Whitespace
         THEN IF Len(s) > 1 /\ s[2] \in Whitespace
              THEN CollapseWhitespace(Tail(s))
              ELSE <<" ">> \o CollapseWhitespace(Tail(s))
         ELSE <<s[1]>> \o CollapseWhitespace(Tail(s))

\* indiamart_scraper.py 15-19
clean_text(text) ==
    IF text = <<>> THEN <<>> ELSE CollapseWhitespace(Strip(text))

\* indiamart_scraper.py 29: the group <<b, e>> of the leftmost match of the
\* pattern, which starts with the two characters U+00E2 U+201A, then an
\* optional U+00B9, then \s*, then the number; or <<>>
ScraperPriceMatch(s) ==
    LET AfterSymbol(i) ==
            LET p == IF i + 2 <= Len(s) /\ s[i + 2] = "¹" THEN i + 3 ELSE i + 2
                rest == {k \in p..Len(s) : s[k] \notin Whitespace}
            IN  IF rest = {} THEN 0 ELSE Min(rest)
        starts == {i \in DOMAIN s :
                      /\ i + 1 <= Len(s)
                      /\ s[i] = "â" /\ s[i + 1] = LowQuote
                      /\ AfterSymbol(i) # 0
                      /\ s[AfterSymbol(i)] \in Digits}
    IN  IF starts = {} THEN <<>>
        ELSE LET b == AfterSymbol(Min(starts))
             IN  <<b, Max(NumEnds(s, b))>>

\* indiamart_scraper.py 35-38: group(1) or group(2) of the leftmost match of
\* per\s+(\w+)|/(\w+), or '' when there is no match
ScraperUnit(s) ==
    LET PerWord(i) ==
            IF i + 3 <= Len(s) /\ SubSeq(s, i, i + 2) = <<"p", "e", "r">>
                               /\ s[i + 3] \in Whitespace
            THEN LET rest == {k \in (i + 4)..Len(s) : s[k] \notin Whitespace}
                 IN  IF rest # {} /\ s[Min(rest)] \in WordChars THEN Min(rest) ELSE 0
            ELSE 0
        SlashWord(i) ==
            IF i + 1 <= Len(s) /\ s[i] = "/" /\ s[i + 1] \in WordChars
            THEN i + 1 ELSE 0
        starts == {i \in DOMAIN s : PerWord(i) # 0 \/ SlashWord(i) # 0}
    IN  IF starts = {} THEN <<>>
        ELSE LET i == Min(starts)
                 k == IF PerWord(i) # 0 THEN PerWord(i) ELSE SlashWord(i)
             IN  SubSeq(s, k, WordEnd(s, k))

\* indiamart_scraper.py 21-45
extract_price(price_text) ==
    IF price_text = <<>>
    THEN [raw_price |-> <<>>, numeric_price |-> NA, currency |-> <<"I", "N", "R">>, unit |-> <<>>]
    ELSE LET text == clean_text(price_text)
             m == ScraperPriceMatch(text)
         IN  [raw_price |-> text,
              numeric_price |->
                  IF m = <<>> THEN NA
                  ELSE GroupValue(text, m[1], m[2]),
              currency |-> <<"I", "N", "R">>,
              unit |-> ScraperUnit(Lower(text))]

\* indiamart_scraper.py 88-92 (and 100-104, 111-115, 120-124, 145-149):
\* the cleaned text of the first element a selector of the list finds, the
\* loop breaking at that element; '' when no selector finds one
FirstElementText(probes) ==
    LET found == {k \in DOMAIN probes : probes[k] # NoElement}
    IN  IF found = {} THEN <<>> ELSE clean_text(probes[Min(found)])

\* str.startswith(prefix)
StartsWith(s, prefix) ==
    Len(s) >= Len(prefix) /\ SubSeq(s, 1, Len(prefix)) = prefix

\* urlsplit: the text opens with a scheme, letters up to a colon
HasScheme(url) ==
    \E k \in 2..Len(url) :
        /\ url[k] = ":"
        /\ \A m \in 1..(k - 1) : LowerChar(url[m]) \in LowerLetters

\* urllib.parse.urljoin(base, url) for a base with an empty path and a url
\* without dot segments, query or fragment
urljoin(base, url) ==
    IF url = <<>> THEN base
    ELSE IF HasScheme(url) THEN url
    ELSE IF StartsWith(url, <<"/", "/">>) THEN <<"h", "t", "t", "p", "s", ":">> \o url
    ELSE IF StartsWith(url, <<"/">>) THEN base \o url
    ELSE base \o <<"/">> \o url

\* indiamart_scraper.py 131-132 and 139-140
ResolveUrl(url) ==
    IF url # <<>> /\ ~StartsWith(url, <<"h", "t", "t", "p">>) THEN urljoin(base_url, url) ELSE url

\* `a or b` for attribute values: None and '' are falsy
PyOr(a, b) == IF IsNA(a) \/ a = <<>> THEN b ELSE a

\* indiamart_scraper.py 127-132
ImageUrl(img) ==
    IF ~img.elem THEN <<>>
    ELSE ResolveUrl(PyOr(PyOr(img.src, img.data_src), <<>>))

\* indiamart_scraper.py 135-140: link_elem.get('href', '')
ProductUrl(link) ==
    IF ~link.elem THEN <<>>
    ELSE ResolveUrl(IF IsNA(link.href) THEN <<>> ELSE link.href)

ReturnedNone == [returned |-> "None"]
Raised == [raised |-> "Exception"]
SourceUrl == <<"u">>
Category == <<"c">>

\* indiamart_scraper.py 151-165: the dict returned
ProductRecord(frag, title) ==
    LET price_info == extract_price(FirstElementText(frag.price))
    IN  [title |-> title,
         supplier_name |-> FirstElementText(frag.supplier),
         location |-> FirstElementText(frag.location),
         raw_price |-> price_info.raw_price,
         numeric_price |-> price_info.numeric_price,
         currency |-> price_info.currency,
         price_unit |-> price_info.unit,
         description |-> FirstElementText(frag.description),
         image_url |-> ImageUrl(frag.img),
         product_url |-> ProductUrl(frag.link),
         source_url |-> SourceUrl,
         category |-> Category,
         marketplace |-> <<"I", "n", "d", "i", "a", "M", "A", "R", "T">>]

\* A faulty variant: a fragment with no title still gives a record.
ExtractSingleProductKeepUntitled(frag) ==
    IF frag.raises # "none" THEN Raised
    ELSE ProductRecord(frag, FirstElementText(frag.title))

\* indiamart_scraper.py 82-165: the dict returned, ReturnedNone, or Raised
\* when the read of a field raises; no statement of the method catches
extract_single_product(frag) ==
    IF frag.raises = "title" THEN Raised
    ELSE LET title == FirstElementText(frag.title)
         IN  IF title = <<>> THEN ReturnedNone
             ELSE IF frag.raises # "none" THEN Raised
             ELSE ProductRecord(frag, title)

Absent(selectors) == [k \in DOMAIN selectors |-> NoElement]

\* The element of the k-th selector carries the text; the selectors before
\* it find, each, an element whose text is `before` (NoElement: none).
ProbesWith(selectors, k, text, before) ==
    [i \in DOMAIN selectors |->
        IF i = k THEN text ELSE IF i < k THEN before ELSE NoElement]

TitleProbes ==
    {Absent(title_selectors),
     ProbesWith(title_selectors, 1, <<"X">>, NoElement),
     ProbesWith(title_selectors, 4, <<"X">>, <<>>),
     ProbesWith(title_selectors, 2, <<" ", "X", " ", " ", "Y", " ">>, NoElement),
     ProbesWith(title_selectors, 1, <<" ">>, NoElement)}

PriceProbes ==
    {Absent(price_selectors),
     ProbesWith(price_selectors, 1, <<"₹", "1", ",", "2", "0", "0", " ", "-", " ", "₹", "1", ",", "8", "0", "0", " ", "p", "e", "r", " ", "k", "g">>, NoElement),
     ProbesWith(price_selectors, 3, <<"₹", "1", "2", "/", "P", "c">>, <<>>),
     ProbesWith(price_selectors, 2, <<"â", "<U+201A>", "¹", "1", ",", "2", "0", "0", " ", "p", "e", "r", " ", "k", "g">>, NoElement)}

SupplierProbes ==
    {Absent(supplier_selectors), ProbesWith(supplier_selectors, 2, <<"S">>, <<>>)}

LocationProbes ==
    {Absent(location_selectors), ProbesWith(location_selectors, 3, <<"P", "u", "n", "e">>, NoElement)}

DescProbes ==
    {Absent(desc_selectors), ProbesWith(desc_selectors, 2, <<"d">>, <<>>)}

Images ==
    {[elem |-> FALSE, src |-> NA, data_src |-> NA]} \cup
    [elem : {TRUE}, src : {NA, <<"/", "a">>, <<"h", "t", "t", "p", ":", "/", "/", "x", "/", "a">>, <<"h", "t", "t", "p", "d", "/", "a">>},
     data_src : {NA, <<"/", "/", "x", "/", "b">>}]

Links ==
    {[elem |-> FALSE, href |-> NA]} \cup
    [elem : {TRUE}, href : {NA, <<"p">>, <<"h", "t", "t", "p", "s", ":", "/", "/", "x", "/", "p">>, <<"h", "t", "t", "p", "d", "/", "p">>}]

Fields == {"title", "price", "supplier", "location", "image", "link", "description"}

Fragments ==
    [title : TitleProbes, price : PriceProbes, supplier : SupplierProbes,
     location : LocationProbes, description : DescProbes, img : Images,
     link : Links, raises : Fields \cup {"none"}]

InitRec ==
    /\ fragment \in Fragments
    /\ record = NoResult
    /\ IdleDedup /\ IdleSim /\ IdlePrice /\ IdleLoc /\ IdleJac /\ IdlePage
    /\ IdleLinks /\ IdleCleaner /\ IdleScraper

\* One call of extract_single_product(fragment, source_url).
ExtractSingleProduct ==
    /\ record = NoResult
    /\ record' = extract_single_product(fragment)
    /\ UNCHANGED <<dedupVars, simVars, priceVars, locVars, jacVars, fragment, pageVars,
                   linkVars, cleanerVars, requestVars, scrapeVars>>

NextRec == ExtractSingleProduct

SpecRec == InitRec /\ [][NextRec]_vars

(***************************************************************************)
(* extract_product_data (indiamart_scraper.py 47-80).                      *)
(*                                                                         *)
(* A page is what the calls on the soup return: for each selector of       *)
(* product_selectors the list soup.select gives, and the list find_all     *)
(* gives for the class pattern of the fallback.                            *)
(***************************************************************************)
\* indiamart_scraper.py 52-58
product_selectors == <<".prd", ".lst", ".product-item", ".srp-list-item", ".prd-item">>

\* A faulty variant: the matches of all the selectors, one list after the
\* other.
SelectCandidatesMixed(pg) ==
    LET all == Concat([k \in DOMAIN product_selectors |-> pg.select[k]])
    IN  IF all = <<>> THEN pg.fallback ELSE all

\* indiamart_scraper.py 60-69: product_elements after the selector loop and
\* the fallback
SelectCandidates(pg) ==
    LET matching == {k \in DOMAIN product_selectors : pg.select[k] # <<>>}
    IN  IF matching = {} THEN pg.fallback ELSE pg.select[Min(matching)]

\* A faulty variant: the first exception ends the loop.
RECURSIVE ExtractAllStopAtError(_, _)
ExtractAllStopAtError(elements, prods) ==
    IF elements = <<>> THEN prods
    ELSE LET product_data == extract_single_product(Head(elements))
         IN  IF product_data = Raised THEN prods
             ELSE ExtractAllStopAtError(Tail(elements),
                      IF product_data = ReturnedNone THEN prods
                      ELSE Append(prods, product_data))

\* indiamart_scraper.py 71-78: the loop over product_elements; an exception
\* of extract_single_product is caught and the loop goes on
RECURSIVE ExtractAll(_, _)
ExtractAll(elements, prods) ==
    IF elements = <<>> THEN prods
    ELSE LET product_data == extract_single_product(Head(elements))
         IN  ExtractAll(Tail(elements),
                 IF product_data = Raised \/ product_data = ReturnedNone THEN prods
                 ELSE Append(prods, product_data))

\* indiamart_scraper.py 47-80
extract_product_data(pg) == ExtractAll(SelectCandidates(pg), <<>>)

\* A fragment with the title probes given and no other element.
Listing(titleProbes, raises) ==
    [title |-> titleProbes,
     price |-> Absent(price_selectors),
     supplier |-> Absent(supplier_selectors),
     location |-> Absent(location_selectors),
     description |-> Absent(desc_selectors),
     img |-> [elem |-> FALSE, src |-> NA, data_src |-> NA],
     link |-> [elem |-> FALSE, href |-> NA],
     raises |-> raises]

PageFragments ==
    {Listing(ProbesWith(title_selectors, 1, <<"X">>, NoElement), "none"),
     Listing(ProbesWith(title_selectors, 2, <<"Y">>, NoElement), "none"),
     Listing(Absent(title_selectors), "none"),
     Listing(ProbesWith(title_selectors, 1, <<"Z">>, NoElement), "price")}

PageLists == SeqsUpTo(PageFragments, MaxPageFragments)
ShortLists == SeqsUpTo(PageFragments, 1)

\* Pages on which at most two of the selectors match.
Pages ==
    {[select |-> [k \in DOMAIN product_selectors |->
                     IF k = h[1] THEN l[1] ELSE IF k = h[2] THEN l[2] ELSE <<>>],
      fallback |-> l[3]] :
        h \in (DOMAIN product_selectors) \X (DOMAIN product_selectors),
        l \in PageLists \X ShortLists \X ShortLists}

InitPage ==
    /\ page \in Pages
    /\ product_elements = <<>>
    /\ products = <<>>
    /\ pageDone = FALSE
    /\ IdleDedup /\ IdleSim /\ IdlePrice /\ IdleLoc /\ IdleJac /\ IdleRec
    /\ IdleLinks /\ IdleCleaner /\ IdleScraper

\* One call of extract_product_data(page, url).
ExtractProductData ==
    /\ pageDone = FALSE
    /\ product_elements' = SelectCandidates(page)
    /\ products' = extract_product_data(page)
    /\ pageDone' = TRUE
    /\ UNCHANGED <<dedupVars, simVars, priceVars, locVars, jacVars, recVars, page,
                   linkVars, cleanerVars, requestVars, scrapeVars>>

NextPage == ExtractProductData

SpecPage == InitPage /\ [][NextPage]_vars

(***************************************************************************)
(* IndiaMartScraper.get_product_urls (indiamart_scraper.py 167-188).       *)
(*                                                                         *)
(* The parsed page is the sequence of its a elements in document order: of *)
(* each, the classes its ancestors carry and its href attribute (NA: not   *)
(* set).                                                                   *)
(***************************************************************************)
\* indiamart_scraper.py 172-177: the fourth selector is a[href*="/proddetail/"]
link_selectors == <<".prd a", ".lst a", ".product-item a", "a[href*=/proddetail/]">>

\* soup.select: does the a element match the k-th selector of link_selectors
MatchesLinkSelector(k, a) ==
    CASE k = 1 -> "prd" \in a.within
      [] k = 2 -> "lst" \in a.within
      [] k = 3 -> "product-item" \in a.within
      [] k = 4 -> ~IsNA(a.href) /\ Contains(a.href, <<"/", "p", "r", "o", "d", "d", "e", "t", "a", "i", "l", "/">>)

\* indiamart_scraper.py 180: soup.select(selector), in document order
SelectLinks(doc, k) == SelectSeq(doc, LAMBDA a : MatchesLinkSelector(k, a))

\* indiamart_scraper.py 181-186: the hrefs appended for one selector's links
RECURSIVE LinkUrls(_)
LinkUrls(links) ==
    IF links = <<>> THEN <<>>
    ELSE LET href == Head(links).href
         IN  (IF IsNA(href) \/ href = <<>>
              THEN <<>>
              ELSE <<IF ~StartsWith(href, <<"h", "t", "t", "p">>)
                     THEN urljoin(base_url, href)
                     ELSE href>>)
             \o LinkUrls(Tail(links))

\* indiamart_scraper.py 179-186: the loop over every selector of the list
CollectedUrls(doc) ==
    Concat([k \in DOMAIN link_selectors |-> LinkUrls(SelectLinks(doc, k))])

\* list(set(urls)): the elements of the set, in an order the build chooses
ListOfSet(S) == {o \in [1..Cardinality(S) -> S] : Range(o) = S}

\* indiamart_scraper.py 167-188
get_product_urls(doc) == ListOfSet(Range(CollectedUrls(doc)))

LinkContainers == {{}, {"prd"}, {"lst"}, {"product-item"}, {"prd", "lst"}}
Hrefs ==
    {NA, <<>>, <<"/", "p">>, <<"/", "p", "r", "o", "d", "d", "e", "t", "a", "i", "l", "/", "1">>, <<"h", "t", "t", "p", "s", ":", "/", "/", "x", ".", "i", "n", "/", "p">>, <<"h", "t", "t", "p", "d", "/", "p">>,
     <<"h", "t", "t", "p", "s", ":", "/", "/", "w", "w", "w", ".", "i", "n", "d", "i", "a", "m", "a", "r", "t", ".", "c", "o", "m", "/", "p">>}
Anchors == [within : LinkContainers, href : Hrefs]

InitLinks ==
    /\ anchors \in SeqsUpTo(Anchors, MaxAnchors)
    /\ urls = NoResult
    /\ IdleDedup /\ IdleSim /\ IdlePrice /\ IdleLoc /\ IdleJac /\ IdleRec /\ IdlePage
    /\ IdleCleaner /\ IdleScraper

\* One call of get_product_urls(soup).
GetProductUrls ==
    /\ urls = NoResult
    /\ \E list \in get_product_urls(anchors) : urls' = [returned |-> list]
    /\ UNCHANGED <<dedupVars, simVars, priceVars, locVars, jacVars, recVars, pageVars,
                   anchors, cleanerVars, requestVars, scrapeVars>>

NextLinks == GetProductUrls

SpecLinks == InitLinks /\ [][NextLinks]_vars

(***************************************************************************)
(* DataCleaner (cleaner.py): the text, price and location stages and the   *)
(* pipeline clean_dataset.                                                 *)
(*                                                                         *)
(* A table is its set of column names and the sequence of its rows, each   *)
(* row a function from the column names to the cell values.  A cell is a   *)
(* str, a number <<num, den>>, NA (NaN) or NoElement (Python's None).  The  *)
(* columns hold Python objects (dtype object), so the .str accessor is     *)
(* available on every column.                                              *)
(***************************************************************************)
IsNone(v) == v = NoElement
IsNull(v) == IsNA(v) \/ IsNone(v)

\* cleaner.py 33
text_columns == <<"title", "supplier_name", "location", "description">>

\* cleaner.py 37: astype(str) prints NaN as 'nan' and None as 'None'
AsTypeStr(v) ==
    IF IsNA(v) THEN <<"n", "a", "n">> ELSE IF IsNone(v) THEN <<"N", "o", "n", "e">> ELSE v

\* cleaner.py 40: replace(['nan', 'None', ''], np.nan), on whole values
ReplaceNull(s) == IF s \in {<<"n", "a", "n">>, <<"N", "o", "n", "e">>, <<>>} THEN NA ELSE s

CleanTextValueNoStrip(v) == ReplaceNull(CollapseWhitespace(AsTypeStr(v)))

\* cleaner.py 37-40: what the four statements make of one cell
CleanTextValue(v) == ReplaceNull(CollapseWhitespace(Strip(AsTypeStr(v))))

\* cleaner.py 37-40: df[col] = ..., the column col rewritten cell by cell
CleanTextColumn(df_, col) ==
    [df_ EXCEPT !.rows =
        [i \in DOMAIN df_.rows |->
            [df_.rows[i] EXCEPT ![col] = CleanTextValue(@)]]]

\* cleaner.py 35-36: the loop over text_columns, a column at a time
RECURSIVE CleanTextFrom(_, _)
CleanTextFrom(df_, k) ==
    IF k > Len(text_columns) THEN df_
    ELSE CleanTextFrom(
             IF text_columns[k] \in df_.columns
             THEN CleanTextColumn(df_, text_columns[k])
             ELSE df_,
             k + 1)

\* cleaner.py 31-42
clean_text_columns(df_) == CleanTextFrom(df_, 1)

TextParts == {<<"a">>, <<" ">>, <<"\t">>, <<" ", "\t">>, <<"n", "a", "n">>, <<"N", "o", "n", "e">>}
TextValues == {Concat(p) : p \in SeqsUpTo(TextParts, MaxTextParts)} \cup {NA, NoElement}
MoreTextValues == {NA, <<" ", "n", "a", "n", " ">>, <<"a", " ", " ", "a">>}
TextColumnSets ==
    {{}, {"title"}, {"title", "category"}, {"supplier_name", "location"},
     {"title", "supplier_name", "location", "description", "category"}}

\* Tables whose rows carry one value in every column: the rows with a value
\* of MoreTextValues follow a first row with a value of TextValues
TextTables ==
    {[columns |-> cols, rows |-> [i \in DOMAIN vals |-> [c \in cols |-> vals[i]]]] :
        cols \in TextColumnSets,
        vals \in {<<>>} \cup
                 {<<v>> \o more : v \in TextValues,
                                  more \in SeqsUpTo(MoreTextValues, MaxTextRows - 1)}}

InitText ==
    /\ method = "clean_text_columns"
    /\ table \in TextTables
    /\ cleaned = NoResult
    /\ IdleDedup /\ IdleSim /\ IdlePrice /\ IdleLoc /\ IdleJac /\ IdleRec /\ IdlePage
    /\ IdleLinks /\ IdleScraper

\* One call of clean_text_columns(table).
CleanTextColumns ==
    /\ method = "clean_text_columns"
    /\ cleaned = NoResult
    /\ cleaned' = [df |-> clean_text_columns(table)]
    /\ UNCHANGED <<dedupVars, simVars, priceVars, locVars, jacVars, recVars, pageVars,
                   linkVars, method, table, requestVars, scrapeVars>>

NextText == CleanTextColumns

SpecText == InitText /\ [][NextText]_vars

(***************************************************************************)
(* DataCleaner.standardize_prices (cleaner.py 44-89).                      *)
(*                                                                         *)
(* A cell of the numeric_price column is a float [float |-> <<num, den>>], *)
(* a str [str |-> text] or NaN; a cell of the price_unit column is a str   *)
(* or NA.                                                                  *)
(***************************************************************************)
NaN == [nan |-> TRUE]
IsFloat(cell) == "float" \in DOMAIN cell

\* cleaner.py 50: pd.to_numeric(errors='coerce') of one cell; of the str
\* cells, those made of digits only are read as numbers
to_numeric(cell) ==
    IF IsFloat(cell) THEN cell
    ELSE IF /\ "str" \in DOMAIN cell
            /\ cell.str # <<>>
            /\ \A i \in DOMAIN cell.str : cell.str[i] \in Digits
         THEN [float |-> <<DigitsToInt(cell.str), 1>>]
         ELSE NaN

\* The values in ascending order
RECURSIVE SortValues(_)
SortValues(values) ==
    IF values = <<>> THEN <<>>
    ELSE LET least == CHOOSE i \in DOMAIN values :
                          \A j \in DOMAIN values : RatLeq(values[i], values[j])
         IN  <<values[least]>> \o
             SortValues(SubSeq(values, 1, least - 1) \o
                        SubSeq(values, least + 1, Len(values)))

\* Series.quantile(q), q = <<num, den>>: NaN cells are left out, and the
\* result is interpolated linearly between the two nearest order statistics
quantile(column, q) ==
    LET present == SelectSeq(column, IsFloat)
        sorted == SortValues([i \in DOMAIN present |-> present[i].float])
        n == Len(sorted)
        h == RatMul(<<n - 1, 1>>, q)
        lo == h[1] \div h[2]
        frac == <<h[1] % h[2], h[2]>>
    IN  IF n = 0 THEN NaN
        ELSE IF lo + 1 >= n THEN [float |-> sorted[n]]
        ELSE [float |->
                 RatAdd(sorted[lo + 1],
                        RatMul(frac, RatSub(sorted[lo + 2], sorted[lo + 1])))]

PriceOutlierInclusive(cell, price_q1, price_q99) ==
    /\ IsFloat(cell) /\ IsFloat(price_q1) /\ IsFloat(price_q99)
    /\ (RatLeq(cell.float, price_q1.float) \/ RatLeq(price_q99.float, cell.float))

\* cleaner.py 57-60: a comparison with NaN is False
PriceOutlier(cell, price_q1, price_q99) ==
    /\ IsFloat(cell) /\ IsFloat(price_q1) /\ IsFloat(price_q99)
    /\ (RatLt(cell.float, price_q1.float) \/ RatLt(price_q99.float, cell.float))

\* cleaner.py 64-84: unit_mapping of standardize_prices
cleaner_unit_mapping ==
    (<<"p", "i", "e", "c", "e">> :> <<"p", "i", "e", "c", "e">>) @@ (<<"p", "i", "e", "c", "e", "s">> :> <<"p", "i", "e", "c", "e">>) @@ (<<"p", "c">> :> <<"p", "i", "e", "c", "e">>)
    @@ (<<"p", "c", "s">> :> <<"p", "i", "e", "c", "e">>) @@ (<<"u", "n", "i", "t">> :> <<"p", "i", "e", "c", "e">>)
    @@ (<<"k", "g">> :> <<"k", "i", "l", "o", "g", "r", "a", "m">>) @@ (<<"k", "i", "l", "o", "g", "r", "a", "m">> :> <<"k", "i", "l", "o", "g", "r", "a", "m">>)
    @@ (<<"g", "r", "a", "m">> :> <<"g", "r", "a", "m">>)
    @@ (<<"t", "o", "n">> :> <<"t", "o", "n">>) @@ (<<"t", "o", "n", "n", "e">> :> <<"t", "o", "n">>)
    @@ (<<"m", "e", "t", "e", "r">> :> <<"m", "e", "t", "e", "r">>) @@ (<<"m", "e", "t", "r", "e">> :> <<"m", "e", "t", "e", "r">>) @@ (<<"m">> :> <<"m", "e", "t", "e", "r">>)
    @@ (<<"f", "e", "e", "t">> :> <<"f", "e", "e", "t">>) @@ (<<"f", "o", "o", "t">> :> <<"f", "e", "e", "t">>)
    @@ (<<"i", "n", "c", "h">> :> <<"i", "n", "c", "h">>)
    @@ (<<"l", "i", "t", "r", "e">> :> <<"l", "i", "t", "e", "r">>) @@ (<<"l", "i", "t", "e", "r">> :> <<"l", "i", "t", "e", "r">>) @@ (<<"l">> :> <<"l", "i", "t", "e", "r">>)

\* cleaner.py 86: Series.str.lower(), NaN where the cell is no str
StrLower(cell) == IF IsNull(cell) THEN NA ELSE Lower(cell)

\* cleaner.py 87: map(unit_mapping).fillna(df['price_unit'])
StandardizedUnit(price_unit) ==
    IF IsNA(price_unit) THEN NA
    ELSE IF price_unit \in DOMAIN cleaner_unit_mapping
         THEN cleaner_unit_mapping[price_unit]
         ELSE price_unit

\* cleaner.py 44-89
standardize_prices(df_) ==
    IF "numeric_price" \notin df_.columns THEN df_
    ELSE LET numeric_price == [i \in DOMAIN df_.rows |->
                                  to_numeric(df_.rows[i]["numeric_price"])]
             price_q1 == quantile(numeric_price, <<1, 100>>)
             price_q99 == quantile(numeric_price, <<99, 100>>)
             units == "price_unit" \in df_.columns
             columns == df_.columns \cup {"price_outlier"} \cup
                        (IF units THEN {"standardized_unit"} ELSE {})
         IN  [columns |-> columns,
              rows |-> [i \in DOMAIN df_.rows |-> [c \in columns |->
                  CASE c = "numeric_price" -> numeric_price[i]
                    [] c = "price_outlier" ->
                           PriceOutlier(numeric_price[i], price_q1, price_q99)
                    [] c = "price_unit" -> StrLower(df_.rows[i]["price_unit"])
                    [] c = "standardized_unit" ->
                           StandardizedUnit(StrLower(df_.rows[i]["price_unit"]))
                    [] OTHER -> df_.rows[i][c]]]]

PriceCells ==
    {NaN, [str |-> <<"a", "b", "c">>], [str |-> <<"2", "5", "0">>],
     [float |-> <<100, 1>>], [float |-> <<200, 1>>], [float |-> <<300, 1>>]}
UnitCells == {NA, <<"K", "G">>, <<"P", "i", "e", "c", "e", "s">>, <<"g", "m">>, <<"B", "o", "x">>}
PriceColumnSets ==
    {{"title"}, {"title", "numeric_price"}, {"title", "price_unit"},
     {"title", "numeric_price", "price_unit"}}

\* The title of the i-th row: i letters
RowTitle(i) == [k \in 1..i |-> "x"]

\* The table of the columns cols whose i-th row has the price cells[i][1]
\* and the unit cells[i][2]
MakePriceTable(cols, cells) ==
    [columns |-> cols,
     rows |-> [i \in DOMAIN cells |-> [c \in cols |->
         CASE c = "numeric_price" -> cells[i][1]
           [] c = "price_unit" -> cells[i][2]
           [] OTHER -> RowTitle(i)]]]

\* Up to MaxPriceRows rows that vary in the price, or up to MaxUnitRows
\* rows that vary in the unit
PriceTables ==
    {MakePriceTable(cols, cells) :
        cols \in PriceColumnSets,
        cells \in SeqsUpTo(PriceCells \X {NA}, MaxPriceRows) \cup
                  SeqsUpTo({NaN, [float |-> <<100, 1>>]} \X UnitCells, MaxUnitRows)}

InitPrices ==
    /\ method = "standardize_prices"
    /\ table \in PriceTables
    /\ cleaned = NoResult
    /\ IdleDedup /\ IdleSim /\ IdlePrice /\ IdleLoc /\ IdleJac /\ IdleRec /\ IdlePage
    /\ IdleLinks /\ IdleScraper

\* One call of standardize_prices(table).
StandardizePrices ==
    /\ method = "standardize_prices"
    /\ cleaned = NoResult
    /\ cleaned' = [df |-> standardize_prices(table)]
    /\ UNCHANGED <<dedupVars, simVars, priceVars, locVars, jacVars, recVars, pageVars,
                   linkVars, method, table, requestVars, scrapeVars>>

NextPrices == StandardizePrices

SpecPrices == InitPrices /\ [][NextPrices]_vars

(***************************************************************************)
(* DataCleaner.standardize_locations (cleaner.py 91-120).                  *)
(***************************************************************************)
\* cleaner.py 97-106: a set of str, not a dict
cleaner_indian_states ==
    {<<"m", "a", "h", "a", "r", "a", "s", "h", "t", "r", "a">>, <<"u", "t", "t", "a", "r", " ", "p", "r", "a", "d", "e", "s", "h">>, <<"u", "p">>, <<"k", "a", "r", "n", "a", "t", "a", "k", "a">>, <<"t", "a", "m", "i", "l", " ", "n", "a", "d", "u">>,
     <<"t", "n">>, <<"g", "u", "j", "a", "r", "a", "t">>, <<"r", "a", "j", "a", "s", "t", "h", "a", "n">>, <<"w", "e", "s", "t", " ", "b", "e", "n", "g", "a", "l">>, <<"w", "b">>,
     <<"m", "a", "d", "h", "y", "a", " ", "p", "r", "a", "d", "e", "s", "h">>, <<"m", "p">>, <<"a", "n", "d", "h", "r", "a", " ", "p", "r", "a", "d", "e", "s", "h">>, <<"a", "p">>, <<"o", "d", "i", "s", "h", "a">>,
     <<"o", "r", "i", "s", "s", "a">>, <<"t", "e", "l", "a", "n", "g", "a", "n", "a">>, <<"k", "e", "r", "a", "l", "a">>, <<"p", "u", "n", "j", "a", "b">>, <<"h", "a", "r", "y", "a", "n", "a">>,
     <<"j", "h", "a", "r", "k", "h", "a", "n", "d">>, <<"b", "i", "h", "a", "r">>, <<"c", "h", "h", "a", "t", "t", "i", "s", "g", "a", "r", "h">>, <<"u", "t", "t", "a", "r", "a", "k", "h", "a", "n", "d">>,
     <<"h", "i", "m", "a", "c", "h", "a", "l", " ", "p", "r", "a", "d", "e", "s", "h">>, <<"h", "p">>, <<"a", "s", "s", "a", "m">>, <<"j", "a", "m", "m", "u", " ", "a", "n", "d", " ", "k", "a", "s", "h", "m", "i", "r">>, <<"j", "&", "k">>,
     <<"d", "e", "l", "h", "i">>, <<"n", "e", "w", " ", "d", "e", "l", "h", "i">>, <<"m", "u", "m", "b", "a", "i">>, <<"b", "a", "n", "g", "a", "l", "o", "r", "e">>, <<"c", "h", "e", "n", "n", "a", "i">>,
     <<"k", "o", "l", "k", "a", "t", "a">>, <<"h", "y", "d", "e", "r", "a", "b", "a", "d">>, <<"p", "u", "n", "e">>, <<"a", "h", "m", "e", "d", "a", "b", "a", "d">>, <<"s", "u", "r", "a", "t">>, <<"j", "a", "i", "p", "u", "r">>,
     <<"l", "u", "c", "k", "n", "o", "w">>, <<"k", "a", "n", "p", "u", "r">>, <<"n", "a", "g", "p", "u", "r">>, <<"v", "i", "s", "a", "k", "h", "a", "p", "a", "t", "n", "a", "m">>, <<"i", "n", "d", "o", "r", "e">>,
     <<"t", "h", "a", "n", "e">>, <<"b", "h", "o", "p", "a", "l">>}

UpperChar(c) ==
    IF c \in LowerLetters THEN CHOOSE u \in DOMAIN UpperToLower : UpperToLower[u] = c
    ELSE c

\* str.title(): a letter is upper-cased after a character that is no letter
\* and at the start, and lower-cased after a letter
Title(s) ==
    [i \in DOMAIN s |->
        IF i = 1 \/ LowerChar(s[i - 1]) \notin LowerLetters
        THEN UpperChar(s[i])
        ELSE LowerChar(s[i])]

\* cleaner.py 113-114: the keys of the set found in the text
StatesIn(location_lower) ==
    {state \in cleaner_indian_states : Contains(location_lower, state)}

\* cleaner.py 108-116: extract_state, the set of line 113 iterated in the
\* order iteration
extract_state(location_text, iteration) ==
    IF IsNull(location_text) THEN NoElement
    ELSE LET found == {k \in DOMAIN iteration :
                          Contains(Lower(location_text), iteration[k])}
         IN  IF found = {} THEN NoElement ELSE Title(iteration[Min(found)])

\* The keys found in some location of the table
StatesInTable(df_) ==
    UNION {StatesIn(Lower(df_.rows[i]["location"])) :
              i \in {j \in DOMAIN df_.rows : ~IsNull(df_.rows[j]["location"])}}

\* cleaner.py 91-120.  The order in which a set of str is iterated follows
\* the hashes of the strings, which vary from one interpreter run to the
\* next; of the order only the part over the keys found in the table matters
standardize_locations(df_) ==
    IF "location" \notin df_.columns THEN {df_}
    ELSE {[columns |-> df_.columns \cup {"extracted_state"},
           rows |-> [i \in DOMAIN df_.rows |->
               [c \in df_.columns \cup {"extracted_state"} |->
                   IF c = "extracted_state"
                   THEN extract_state(df_.rows[i]["location"], iteration)
                   ELSE df_.rows[i][c]]]] :
             iteration \in ListOfSet(StatesInTable(df_))}

LocationCells ==
    {NA, <<"S", "a", "l", "e", "m">>, <<"K", "e", "r", "a", "l", "a">>, <<"M", "u", "m", "b", "a", "i">>, <<"N", "a", "g", "p", "u", "r">>, <<"P", "u", "n", "e", ",", " ", "M", "a", "h", "a", "r", "a", "s", "h", "t", "r", "a">>,
     <<"L", "u", "c", "k", "n", "o", "w", ",", " ", "U", "P">>, <<"K", "a", "p", "u", "r", "t", "h", "a", "l", "a", ",", " ", "P", "u", "n", "j", "a", "b">>}
LocationColumnSets == {{"title"}, {"title", "location"}}

LocationTables ==
    {[columns |-> cols,
      rows |-> [i \in DOMAIN cells |-> [c \in cols |->
          IF c = "location" THEN cells[i] ELSE RowTitle(i)]]] :
        cols \in LocationColumnSets,
        cells \in SeqsUpTo(LocationCells, MaxLocationRows)}

InitLocations ==
    /\ method = "standardize_locations"
    /\ table \in LocationTables
    /\ cleaned = NoResult
    /\ IdleDedup /\ IdleSim /\ IdlePrice /\ IdleLoc /\ IdleJac /\ IdleRec /\ IdlePage
    /\ IdleLinks /\ IdleScraper

\* One call of standardize_locations(table).
StandardizeLocations ==
    /\ method = "standardize_locations"
    /\ cleaned = NoResult
    /\ \E df_ \in standardize_locations(table) : cleaned' = [df |-> df_]
    /\ UNCHANGED <<dedupVars, simVars, priceVars, locVars, jacVars, recVars, pageVars,
                   linkVars, method, table, requestVars, scrapeVars>>

NextLocations == StandardizeLocations

SpecLocations == InitLocations /\ [][NextLocations]_vars

(***************************************************************************)
(* DataCleaner.validate_data_quality and clean_dataset (cleaner.py         *)
(* 143-195).                                                               *)
(***************************************************************************)
\* isnull() of a cell of the column c
CellIsNull(c, cell) ==
    CASE c = "numeric_price" -> ~IsFloat(cell)
      [] c = "price_outlier" -> FALSE
      [] OTHER -> IsNull(cell)

\* The positions of the rows whose cell of the column c is not null
NotNull(df_, c) == {i \in DOMAIN df_.rows : ~CellIsNull(c, df_.rows[i][c])}

RECURSIVE SumValues(_)
SumValues(values) ==
    IF values = <<>> THEN <<0, 1>> ELSE RatAdd(Head(values), SumValues(Tail(values)))

\* Series.mean() of the values, NaN for none
Mean(values) ==
    IF values = <<>> THEN NaN
    ELSE [float |-> RatDiv(SumValues(values), <<Len(values), 1>>)]

\* cleaner.py 158-167: count, mean, median, min and max of the prices
\* present (the sample standard deviation 'std' is left out)
price_statistics(df_) ==
    LET price_data == Pick(df_.rows, NotNull(df_, "numeric_price"))
        values == [i \in DOMAIN price_data |-> price_data[i]["numeric_price"].float]
        sorted == SortValues(values)
    IN  [count |-> Len(values),
         mean |-> Mean(values).float,
         median |-> quantile([i \in DOMAIN values |-> [float |-> values[i]]],
                             <<1, 2>>).float,
         min |-> sorted[1],
         max |-> sorted[Len(sorted)]]

\* Series.nunique(): the distinct values other than null
Unique(df_, c) == {df_.rows[i][c] : i \in NotNull(df_, c)}

\* cleaner.py 143-178
validate_data_quality(df_) ==
    [total_records |-> Len(df_.rows),
     columns |-> df_.columns,
     missing_values |->
         [c \in df_.columns |-> Len(df_.rows) - Cardinality(NotNull(df_, c))],
     data_types |->
         [c \in df_.columns |->
             CASE c = "numeric_price" -> "float64"
               [] c = "price_outlier" -> "bool"
               [] OTHER -> "object"]]
    @@ (IF "title" \in df_.columns
        THEN [products_with_title |-> Cardinality(NotNull(df_, "title")),
              avg_title_length |->
                  LET titles == Pick(df_.rows, NotNull(df_, "title"))
                  IN  Mean([i \in DOMAIN titles |-> <<Len(titles[i]["title"]), 1>>])]
        ELSE <<>>)
    @@ (IF "numeric_price" \in df_.columns /\ NotNull(df_, "numeric_price") # {}
        THEN [price_statistics |-> price_statistics(df_)]
        ELSE <<>>)
    @@ (IF "supplier_name" \in df_.columns
        THEN [unique_suppliers |-> Cardinality(Unique(df_, "supplier_name"))]
        ELSE <<>>)
    @@ (IF "location" \in df_.columns
        THEN [unique_locations |-> Cardinality(Unique(df_, "location"))]
        ELSE <<>>)
    @@ (IF "category" \in df_.columns
        THEN [category_distribution |->
                 [v \in Unique(df_, "category") |->
                     Cardinality({i \in DOMAIN df_.rows : df_.rows[i]["category"] = v})]]
        ELSE <<>>)

\* cleaner.py 127-129: df['title'] and df['supplier_name'] raise KeyError on a
\* table without the column
KeyError == [raised |-> "KeyError"]

\* cleaner.py 188-195: remove_duplicates and the report, on the table the
\* first three stages give
DedupAndReport(df_) ==
    IF ~({"title", "supplier_name"} \subseteq df_.columns) THEN KeyError
    ELSE LET df_dedup == [df_ EXCEPT !.rows = remove_duplicates(df_.rows)]
         IN  [df |-> df_dedup, quality_report |-> validate_data_quality(df_dedup)]

\* cleaner.py 180-195: the ways the call can end
clean_dataset(df_) ==
    {DedupAndReport(located) :
        located \in standardize_locations(standardize_prices(clean_text_columns(df_)))}

AllColumns ==
    {"title", "supplier_name", "location", "description", "numeric_price",
     "price_unit", "category"}
OptionalColumns == AllColumns \ {"title"}

\* Tables with every column, with one optional column missing, with the
\* title or the title and the supplier only, and without columns
CleanColumnSets ==
    {AllColumns, {}, {"title"}, {"title", "supplier_name"}}
    \cup {AllColumns \ {c} : c \in OptionalColumns}

CleanRows ==
    {[title |-> <<" ", "P", "u", "m", "p", " ">>, supplier_name |-> <<"A", "c", "m", "e">>, location |-> <<"M", "u", "m", "b", "a", "i">>,
      description |-> NA, numeric_price |-> [float |-> <<100, 1>>],
      price_unit |-> <<"K", "G">>, category |-> <<"m", "a", "c", "h", "i", "n", "e", "r", "y">>],
     [title |-> <<"p", "u", "m", "p">>, supplier_name |-> <<"a", "c", "m", "e">>, location |-> NA,
      description |-> <<"n", "a", "n">>, numeric_price |-> [str |-> <<"a", "b", "c">>],
      price_unit |-> NA, category |-> <<"m", "a", "c", "h", "i", "n", "e", "r", "y">>],
     [title |-> <<"V", "a", "l", "v", "e">>, supplier_name |-> NA, location |-> <<"P", "u", "n", "e", ",", " ", "M", "a", "h", "a", "r", "a", "s", "h", "t", "r", "a">>,
      description |-> <<" ", "d", " ", " ", "d">>, numeric_price |-> [float |-> <<300, 1>>],
      price_unit |-> <<"p", "c", "s">>, category |-> <<"e", "l", "e", "c", "t", "r", "o", "n", "i", "c", "s">>]}

CleanTables ==
    {[columns |-> cols,
      rows |-> [i \in DOMAIN rows |-> [c \in cols |-> rows[i][c]]]] :
        cols \in CleanColumnSets, rows \in SeqsUpTo(CleanRows, MaxCleanRows)}

InitClean ==
    /\ method = "clean_dataset"
    /\ table \in CleanTables
    /\ cleaned = NoResult
    /\ IdleDedup /\ IdleSim /\ IdlePrice /\ IdleLoc /\ IdleJac /\ IdleRec /\ IdlePage
    /\ IdleLinks /\ IdleScraper

\* One call of clean_dataset(table).
CleanDataset ==
    /\ method = "clean_dataset"
    /\ cleaned = NoResult
    /\ cleaned' \in clean_dataset(table)
    /\ UNCHANGED <<dedupVars, simVars, priceVars, locVars, jacVars, recVars, pageVars,
                   linkVars, method, table, requestVars, scrapeVars>>

NextClean == CleanDataset

SpecClean == InitClean /\ [][NextClean]_vars

(***************************************************************************)
(* BaseScraper.make_request and scrape_category (base_scraper.py 48-74 and *)
(* 109-138), a statement group at a time.                                  *)
(*                                                                         *)
(* An optional int argument is <<>> (None, the default) or <<n>>.  The     *)
(* requests sent, the pages received and the records extracted are the     *)
(* environment's: a session.get succeeds or raises a RequestException, and *)
(* extract_product_data returns up to MaxPageProducts records or raises.   *)
(* A record of scraped_data is the position in urls of the page it came    *)
(* from.                                                                   *)
(***************************************************************************)
\* config.py 15 and 49
retry_attempts == 3
max_products_per_category == 1000

\* `arg or default` for an optional int: None and 0 are falsy
OrDefault(arg, default) == IF arg = <<>> \/ arg[1] = 0 THEN default ELSE arg[1]

OptionalInts(n) == {<<>>} \cup {<<k>> : k \in 0..n}

MakeRequestCalls == [method : {"make_request"}, max_retries : OptionalInts(MaxRetries)]
ScrapeCategoryCalls ==
    [method : {"scrape_category"}, urls : 0..MaxUrls,
     max_products : OptionalInts(MaxProducts)]

\* After construction (base_scraper.py 18-23) scraped_data is empty; then
\* one of the two methods is called.
InitScraper ==
    /\ entry \in MakeRequestCalls \cup ScrapeCategoryCalls
    /\ pc = entry.method
    /\ requested = IF entry.method = "make_request" THEN entry.max_retries ELSE <<>>
    /\ max_retries = 0 /\ attempt = 0 /\ outcomes = <<>> /\ response = NoResult
    /\ max_products = 0 /\ url_index = 0 /\ scraped_data = <<>>
    /\ IdleDedup /\ IdleSim /\ IdlePrice /\ IdleLoc /\ IdleJac /\ IdleRec /\ IdlePage
    /\ IdleLinks /\ IdleCleaner

\* Where make_request returns to: its caller in scrape_category (line 121),
\* or the caller of the method
ReturnPoint == IF entry.method = "scrape_category" THEN "fetched" ELSE "returned"

\* base_scraper.py 50-52: the default of max_retries and the loop entry; a
\* range without elements falls through to the end, which returns None
EnterMakeRequest ==
    /\ pc = "make_request"
    /\ max_retries' = OrDefault(requested, retry_attempts)
    /\ attempt' = 0
    /\ outcomes' = <<>>
    /\ IF max_retries' > 0
       THEN pc' = "attempt" /\ response' = NoResult
       ELSE pc' = ReturnPoint /\ response' = ReturnedNone
    /\ UNCHANGED <<dedupVars, simVars, priceVars, locVars, jacVars, recVars, pageVars,
                   linkVars, cleanerVars, requested, entry, max_products, url_index,
                   scraped_data>>

\* base_scraper.py 53-66: the request succeeds and its response is returned
AttemptSucceeds ==
    /\ pc = "attempt"
    /\ outcomes' = Append(outcomes, "ok")
    /\ response' = [status |-> "ok", attempt |-> attempt]
    /\ pc' = ReturnPoint
    /\ UNCHANGED <<dedupVars, simVars, priceVars, locVars, jacVars, recVars, pageVars,
                   linkVars, cleanerVars, requested, max_retries, attempt, entry,
                   max_products, url_index, scraped_data>>

\* base_scraper.py 68-74: the request raises RequestException; the loop
\* goes on, or after the last attempt None is returned
AttemptFails ==
    /\ pc = "attempt"
    /\ outcomes' = Append(outcomes, "error")
    /\ IF attempt < max_retries - 1
       THEN attempt' = attempt + 1 /\ UNCHANGED <<pc, response>>
       ELSE pc' = ReturnPoint /\ response' = ReturnedNone /\ UNCHANGED attempt
    /\ UNCHANGED <<dedupVars, simVars, priceVars, locVars, jacVars, recVars, pageVars,
                   linkVars, cleanerVars, requested, max_retries, entry, max_products,
                   url_index, scraped_data>>

\* base_scraper.py 111-114: the default of max_products
EnterScrapeCategory ==
    /\ pc = "scrape_category"
    /\ max_products' = OrDefault(entry.max_products, max_products_per_category)
    /\ pc' = "for"
    /\ UNCHANGED <<dedupVars, simVars, priceVars, locVars, jacVars, recVars, pageVars,
                   linkVars, cleanerVars, requestVars, entry, url_index, scraped_data>>

\* base_scraper.py 116-120: the next url, unless the cap is reached; then
\* make_request(url) with max_retries left at its default
NextUrl ==
    /\ pc = "for"
    /\ url_index < entry.urls
    /\ Len(scraped_data) < max_products
    /\ url_index' = url_index + 1
    /\ requested' = <<>>
    /\ pc' = "make_request"
    /\ UNCHANGED <<dedupVars, simVars, priceVars, locVars, jacVars, recVars, pageVars,
                   linkVars, cleanerVars, max_retries, attempt, outcomes, response,
                   entry, max_products, scraped_data>>

\* base_scraper.py 116-118 and 137-138: urls is exhausted or the cap is
\* reached, and scraped_data is returned
EndOfUrls ==
    /\ pc = "for"
    /\ (url_index = entry.urls \/ Len(scraped_data) >= max_products)
    /\ pc' = "done"
    /\ UNCHANGED <<dedupVars, simVars, priceVars, locVars, jacVars, recVars, pageVars,
                   linkVars, cleanerVars, requestVars, entry, max_products, url_index,
                   scraped_data>>

\* base_scraper.py 121-122: no response, continue with the next url
SkipUrl ==
    /\ pc = "fetched"
    /\ response = ReturnedNone
    /\ pc' = "for"
    /\ UNCHANGED <<dedupVars, simVars, priceVars, locVars, jacVars, recVars, pageVars,
                   linkVars, cleanerVars, requestVars, entry, max_products, url_index,
                   scraped_data>>

\* base_scraper.py 124-131: the records of the page are appended
ExtractPage ==
    /\ pc = "fetched"
    /\ response # ReturnedNone
    /\ \E page_data \in 0..MaxPageProducts :
           scraped_data' = scraped_data \o [i \in 1..page_data |-> url_index]
    /\ pc' = "for"
    /\ UNCHANGED <<dedupVars, simVars, priceVars, locVars, jacVars, recVars, pageVars,
                   linkVars, cleanerVars, requestVars, entry, max_products, url_index>>

\* base_scraper.py 133-135: extract_product_data raises, continue
ExtractionFails ==
    /\ pc = "fetched"
    /\ response # ReturnedNone
    /\ pc' = "for"
    /\ UNCHANGED <<dedupVars, simVars, priceVars, locVars, jacVars, recVars, pageVars,
                   linkVars, cleanerVars, requestVars, entry, max_products, url_index,
                   scraped_data>>

NextScraper ==
    \/ EnterMakeRequest
    \/ AttemptSucceeds
    \/ AttemptFails
    \/ EnterScrapeCategory
    \/ NextUrl
    \/ EndOfUrls
    \/ SkipUrl
    \/ ExtractPage
    \/ ExtractionFails

SpecScraper == InitScraper /\ [][NextScraper]_vars

\* Every statement group is a step of one sequential call: a call that can
\* go on does go on.
FairSpecScraper == SpecScraper /\ WF_vars(NextScraper)

(***************************************************************************)
(* The whole model: one of the operations, on an input of its own.         *)
(***************************************************************************)
Init ==
    \/ InitDedup \/ InitSim \/ InitPrice \/ InitLoc \/ InitJac \/ InitRec \/ InitPage
    \/ InitLinks \/ InitText \/ InitPrices \/ InitLocations \/ InitClean
    \/ InitScraper

Next ==
    \/ RemoveDuplicates
    \/ DetectDuplicates
    \/ CleanPriceText
    \/ NormalizeLocation
    \/ CalculateTextSimilarity
    \/ ExtractSingleProduct
    \/ ExtractProductData
    \/ GetProductUrls
    \/ CleanTextColumns
    \/ StandardizePrices
    \/ StandardizeLocations
    \/ CleanDataset
    \/ NextScraper

Spec == Init /\ [][Next]_vars

(***************************************************************************)
(* Exact deduplication: claims C1 and C2.                                  *)
(***************************************************************************)
KeysOf(rows) == {dedup_key(rows[i]) : i \in DOMAIN rows}
IdxOf(rows) == [i \in DOMAIN rows |-> rows[i].idx]

\* C1: after one call of remove_duplicates, every key lower(title) + "_" +
\* lower(supplier) of the input is carried by exactly one output row, that row
\* is the first input row carrying the key, and the surviving rows are in
\* their original relative order.
C1_FirstPerKeyInOrder ==
    runs = 1 =>
        /\ \A k \in KeysOf(input) :
              LET outK == {i \in DOMAIN df : dedup_key(df[i]) = k}
                  inK == {i \in DOMAIN input : dedup_key(input[i]) = k}
              IN  /\ Cardinality(outK) = 1
                  /\ \A i \in outK : df[i] = input[Min(inK)]
        /\ \A i \in DOMAIN df : df[i] \in Range(input)
        /\ \A i, j \in DOMAIN df : i < j => df[i].idx < df[j].idx

\* C1 witness: a call that removed a row whose key differs from an earlier
\* row's title only by letter case, and kept two rows.
C1_Witness ==
    /\ runs = 1
    /\ removed >= 1
    /\ Len(df) = 2
    /\ \E i, j \in DOMAIN input :
          /\ i < j
          /\ dedup_key(input[i]) = dedup_key(input[j])
          /\ input[i].title # input[j].title

\* C2: a second call of remove_duplicates, on the output of the first,
\* removes zero rows and returns the same rows in the same order.
C2_Idempotent ==
    [][runs = 1 => (df' = df /\ removed' = 0)]_vars

\* C2 witness: the second call has run on a table the first call shortened.
C2_Witness == runs = 2 /\ Len(df) >= 2 /\ Len(df) < Len(input)

(***************************************************************************)
(* Similarity deduplication: claims C3, C4 and C5.                         *)
(***************************************************************************)
\* Rows i and j belong to the same supplier partition.
SamePartition(i, j) ==
    /\ ~IsNA(simDf[i].supplier_name)
    /\ simDf[i].supplier_name = simDf[j].supplier_name

Partition(i) == {j \in DOMAIN simDf : SamePartition(i, j)}

\* combinedScore(i, j) >= threshold
ScoreReaches(i, j) ==
    RatLeq(<<threshold, 100>>, combined_sim(simDf[i], simDf[j]))

\* C3: after the pass a row j is flagged exactly when some row i preceding it
\* in its supplier partition is not flagged and scores at least the
\* threshold with j; so the first row of a partition is never flagged and a
\* flagged row is never the canonical representative of another row.
C3_FlaggedIffUnflaggedPredecessor ==
    (simDone /\ ~simError) =>
        \A j \in DOMAIN simDf :
            flags[j] <=> \E i \in DOMAIN simDf :
                            /\ i < j
                            /\ SamePartition(i, j)
                            /\ ~flags[i]
                            /\ ScoreReaches(i, j)

\* C3 witness: three rows of one supplier; the second is flagged, the third
\* scores at least the threshold with the second only, and stays unflagged.
C3_Witness ==
    /\ simDone /\ ~simError
    /\ Len(simDf) = 3
    /\ SamePartition(1, 2) /\ SamePartition(2, 3)
    /\ flags = <<FALSE, TRUE, FALSE>>
    /\ ScoreReaches(2, 3)
    /\ ~ScoreReaches(1, 3)

\* Rows i < j are the only two rows of their supplier and carry the same
\* title and the same price.
IdenticalPair(i, j) ==
    /\ i < j
    /\ Partition(i) = {i, j}
    /\ simDf[i].title = simDf[j].title
    /\ simDf[i].numeric_price = simDf[j].numeric_price

HasWord(title) == WordSet(PyStr(title)) # {}
IsPositive(price) == ~IsNA(price) /\ RatLt(<<0, 1>>, price)

C5_AbsentOrLoneSupplierUnflagged ==
    (simDone /\ ~simError) =>
        \A j \in DOMAIN simDf :
            (IsNA(simDf[j].supplier_name) \/ Partition(j) = {j}) => ~flags[j]

\* C5 witness: two rows with no supplier that score at least the threshold
\* with each other, next to the only row of a supplier.
C5_Witness ==
    /\ simDone /\ ~simError
    /\ \E i, j, k \in DOMAIN simDf :
          /\ i < j
          /\ IsNA(simDf[i].supplier_name) /\ IsNA(simDf[j].supplier_name)
          /\ ScoreReaches(i, j)
          /\ Partition(k) = {k}
          /\ ScoreReaches(i, k)

(***************************************************************************)
(* Price parsing: claims C6 to C9.                                         *)
(***************************************************************************)
\* t[b..e] is a number, or the currency symbol and a number; NumStart is
\* where the number starts.
IsSymNum(t, b, e) == IsNum(t, b, e) \/ (b < e /\ t[b] = Rupee /\ IsNum(t, b + 1, e))
NumStart(t, b) == IF t[b] = Rupee THEN b + 1 ELSE b

\* The text is "<a><sep><b>", sep starting at k, each number with an
\* optional currency symbol.
IsRangeString(t, k, sep) ==
    /\ k + Len(sep) - 1 <= Len(t)
    /\ SubSeq(t, k, k + Len(sep) - 1) = sep
    /\ IsSymNum(t, 1, k - 1)
    /\ IsSymNum(t, k + Len(sep), Len(t))

\* The result is the range of the numbers left and right of the separator.
IsRangeOf(info, t, k, sep) ==
    LET a == GroupValue(t, NumStart(t, 1), k - 1)
        b == GroupValue(t, NumStart(t, k + Len(sep)), Len(t))
    IN  /\ info.is_range
        /\ info.min_price = a
        /\ info.max_price = b
        /\ info.numeric_price = RatDiv(RatAdd(a, b), <<2, 1>>)

\* C6: on a range string "<a> - <b>" clean_price_text returns is_range,
\* min = a, max = b and numeric = (a + b) / 2; and every result with
\* is_range carries min and max and their average as the numeric price.
C6_DashRangeParsed ==
    priceInfo # NoResult =>
        /\ \A k \in DOMAIN priceText :
              IsRangeString(priceText, k, <<" ", "-", " ">>) =>
                  IsRangeOf(priceInfo, priceText, k, <<" ", "-", " ">>)
        /\ priceInfo.is_range =>
              /\ ~IsNA(priceInfo.min_price)
              /\ ~IsNA(priceInfo.max_price)
              /\ priceInfo.numeric_price =
                     RatDiv(RatAdd(priceInfo.min_price, priceInfo.max_price), <<2, 1>>)

\* C6 witness: "₹1,200 - ₹1,800" has been parsed to the range 1200..1800.
C6_Witness ==
    /\ priceInfo # NoResult
    /\ priceText = <<Rupee>> \o <<"1", ",", "2", "0", "0", " ", "-", " ">> \o <<Rupee>> \o <<"1", ",", "8", "0", "0">>
    /\ priceInfo.min_price = <<1200, 1>>
    /\ priceInfo.max_price = <<1800, 1>>
    /\ priceInfo.numeric_price = <<1500, 1>>

\* C7 as claimed: a range whose separator is the word "to" is parsed as a
\* dash-separated range is.
C7_ToRangeParsed ==
    priceInfo # NoResult =>
        \A k \in DOMAIN priceText :
            IsRangeString(priceText, k, <<" ", "t", "o", " ">>) =>
                IsRangeOf(priceInfo, priceText, k, <<" ", "t", "o", " ">>)

\* C8: on "<currency symbol><number>" the numeric price is the number with
\* its thousands separators removed and is_range is false; and the numeric
\* price is absent only when the text holds no digit.
C8_SymbolNumberParsed ==
    priceInfo # NoResult =>
        /\ (Len(priceText) >= 2 /\ priceText[1] = Rupee
            /\ IsNum(priceText, 2, Len(priceText))) =>
              /\ priceInfo.numeric_price = GroupValue(priceText, 2, Len(priceText))
              /\ ~priceInfo.is_range
        /\ IsNA(priceInfo.numeric_price) => DigitCount(priceText) = 0

\* C8 witness: "₹1,200" has been parsed to 1200.
C8_Witness ==
    /\ priceInfo # NoResult
    /\ priceText = <<Rupee>> \o <<"1", ",", "2", "0", "0">>
    /\ priceInfo.numeric_price = <<1200, 1>>

\* C9 as claimed: a price text that carries no unit word (here: no letter at
\* all, as in "<sym><num>") gets an empty unit.
C9_NoUnitWordNoUnit ==
    priceInfo # NoResult =>
        ((\A k \in DOMAIN priceText :
              LowerChar(priceText[k]) \notin LowerLetters)
            => priceInfo.unit = <<>>)

(***************************************************************************)
(* Location parsing: claim C10.                                            *)
(***************************************************************************)
\* The two-letter abbreviation keys of indian_states ("ap", "hp", "mp", "tn",
\* "up", "wb"), and the keys that are full names of states or cities.
AbbreviationKeys ==
    {k \in DOMAIN indian_states : Len(indian_states[k][1]) = Len(<<"u", "p">>)}

FullNameKeys == DOMAIN indian_states \ AbbreviationKeys

IsLetter(c) == LowerChar(c) \in LowerLetters

\* key occurs in text as a whole word: not next to a letter on either side
OccursAsWord(text, key) ==
    \E i \in 1..(Len(text) - Len(key) + 1) :
        /\ SubSeq(text, i, i + Len(key) - 1) = key
        /\ (i = 1 \/ ~IsLetter(text[i - 1]))
        /\ (i + Len(key) > Len(text) \/ ~IsLetter(text[i + Len(key)]))

\* C10 as claimed: the state is derived from an abbreviation key only when
\* the abbreviation occurs as a whole word of the location text, never when
\* it occurs only inside a longer word.  A returned state that no full name
\* in the text accounts for comes from an abbreviation, which then has to
\* stand in the text as a word.
C10_AbbreviationOnlyAsWord ==
    locInfo # NoResult =>
        LET lower == Lower(Strip(locText))
            byFullName == \E k \in FullNameKeys :
                              /\ indian_states[k][2] = locInfo.state
                              /\ Contains(lower, indian_states[k][1])
        IN  (locInfo.state # <<>> /\ ~byFullName) =>
                \E k \in AbbreviationKeys :
                    /\ indian_states[k][2] = locInfo.state
                    /\ OccursAsWord(lower, indian_states[k][1])

(***************************************************************************)
(* Location parsing: claims C11 and C12.                                   *)
(***************************************************************************)
\* The keys of indian_states found in the lowercased location text.
MatchingKeys(lower) ==
    {k \in DOMAIN indian_states : Contains(lower, indian_states[k][1])}

\* C11 as claimed: when several keys of the table match the location text,
\* the state returned is that of a longest matching key, whatever the order
\* in which the table declares its keys.
C11_LongestKeyFirst ==
    locInfo # NoResult =>
        LET hits == MatchingKeys(Lower(Strip(locText)))
        IN  hits # {} =>
                \E k \in hits :
                    /\ \A h \in hits :
                          Len(indian_states[h][1]) <= Len(indian_states[k][1])
                    /\ locInfo.state = indian_states[k][2]

\* C12 as claimed: city is the trimmed text before the first comma, and the
\* empty string when the text has no comma or starts with one; normalized
\* is "{city}, {state}" only when both are non-empty, else the raw text.
C12_CityBeforeFirstComma ==
    locInfo # NoResult =>
        LET text == Strip(locText)
            commas == {k \in DOMAIN text : text[k] = <<",">>[1]}
        IN  /\ locInfo.city =
                   IF commas # {} /\ Min(commas) > 1
                   THEN Strip(SubSeq(text, 1, Min(commas) - 1))
                   ELSE <<>>
            /\ locInfo.normalized =
                   IF locInfo.city # <<>> /\ locInfo.state # <<>>
                   THEN locInfo.city \o <<",", " ">> \o locInfo.state
                   ELSE locInfo.raw_location

(***************************************************************************)
(* Jaccard similarity: claim C13.                                          *)
(***************************************************************************)
\* C13 as claimed: the similarity of a non-empty string with itself is 1.0,
\* strings made only of whitespace included.
C13_SelfSimilarityOne ==
    (jacResult # NoResult /\ jacTexts[1] = jacTexts[2] /\ jacTexts[1] # <<>>)
        => jacResult.similarity = <<1, 1>>

(***************************************************************************)
(* Record extractor: claims C14 to C18.                                    *)
(***************************************************************************)
IsRecord(r) == r \notin {NoResult, ReturnedNone, Raised}

\* The text of the first probe of the list whose result is non-empty.
FirstNonEmptyText(probes) ==
    LET texts == {k \in DOMAIN probes :
                     probes[k] # NoElement /\ clean_text(probes[k]) # <<>>}
    IN  IF texts = {} THEN <<>> ELSE clean_text(probes[Min(texts)])

\* C14 as claimed: each of title, price, supplier, location and description
\* is the text of the first probe of its list whose result is non-empty; a
\* probe that finds an element with empty text does not stop the search.
C14_FirstNonEmptyProbe ==
    (record # NoResult /\ fragment.raises = "none") =>
        IF FirstNonEmptyText(fragment.title) = <<>> THEN record = ReturnedNone
        ELSE /\ IsRecord(record)
             /\ record.title = FirstNonEmptyText(fragment.title)
             /\ record.raw_price = FirstNonEmptyText(fragment.price)
             /\ record.supplier_name = FirstNonEmptyText(fragment.supplier)
             /\ record.location = FirstNonEmptyText(fragment.location)
             /\ record.description = FirstNonEmptyText(fragment.description)

\* The first element a title selector finds holds a character that is not
\* whitespace.
FirstTitleElementHasText ==
    LET found == {k \in DOMAIN fragment.title : fragment.title[k] # NoElement}
    IN  /\ found # {}
        /\ \E c \in Range(fragment.title[Min(found)]) : c \notin Whitespace

\* A record whose optional fields, where the fragment has no element for
\* them, are empty.
MissingFieldsEmpty ==
    /\ fragment.price = Absent(price_selectors) =>
          /\ record.raw_price = <<>>
          /\ IsNA(record.numeric_price)
          /\ record.price_unit = <<>>
    /\ fragment.supplier = Absent(supplier_selectors) => record.supplier_name = <<>>
    /\ fragment.location = Absent(location_selectors) => record.location = <<>>
    /\ fragment.description = Absent(desc_selectors) => record.description = <<>>
    /\ ~fragment.img.elem => record.image_url = <<>>
    /\ ~fragment.link.elem => record.product_url = <<>>

IsAbsoluteUrl(url) == StartsWith(url, <<"h", "t", "t", "p", ":", "/", "/">>) \/ StartsWith(url, <<"h", "t", "t", "p", "s", ":", "/", "/">>)

\* C16 as claimed: in every record, image_url and product_url are each
\* empty or an absolute URL.
C16_UrlsEmptyOrAbsolute ==
    IsRecord(record) =>
        /\ record.image_url = <<>> \/ IsAbsoluteUrl(record.image_url)
        /\ record.product_url = <<>> \/ IsAbsoluteUrl(record.product_url)

\* C17 as claimed: the price fields of a record are those clean_price_text
\* gives for the price text of the fragment.
C17_PriceFieldsOfCleanPriceText ==
    IsRecord(record) =>
        LET info == clean_price_text(FirstElementText(fragment.price))
        IN  /\ record.numeric_price = info.numeric_price
            /\ record.price_unit = info.unit

\* C18 as claimed: when the read of one field other than the title raises,
\* the record is still produced, with that field empty.
C18_FieldExceptionKeepsRecord ==
    (/\ record # NoResult
     /\ fragment.raises \notin {"none", "title"}
     /\ FirstElementText(fragment.title) # <<>>)
        => IsRecord(record)

(***************************************************************************)
(* Page extractor: claims C19 and C20.                                     *)
(***************************************************************************)
\* C19: the candidate fragments are the matches of the first selector, in
\* list order, that matches at least one element, and of no other selector;
\* the fallback list is used only when no selector matches anything.
C19_FirstMatchingHypothesisOnly ==
    pageDone =>
        /\ \A k \in DOMAIN product_selectors :
              (page.select[k] # <<>> /\ \A m \in 1..(k - 1) : page.select[m] = <<>>)
                  => product_elements = page.select[k]
        /\ (\A k \in DOMAIN product_selectors : page.select[k] = <<>>)
              => product_elements = page.fallback

\* C19 witness: two selectors match different fragments and the fallback
\* list is not empty; the candidates are the matches of the earlier one.
C19_Witness ==
    /\ pageDone
    /\ \E k, m \in DOMAIN product_selectors :
          /\ k < m
          /\ page.select[k] # <<>> /\ page.select[m] # <<>>
          /\ page.select[k] # page.select[m]
          /\ page.fallback # <<>> /\ page.fallback # page.select[k]
          /\ product_elements = page.select[k]

\* The fragments of the list whose extraction gives a record.
Extractable(elements) ==
    {i \in DOMAIN elements : IsRecord(extract_single_product(elements[i]))}

\* C20: the call returns (nothing is raised), and the list returned holds,
\* in fragment order, exactly the records of the fragments whose extraction
\* neither raises nor returns None; no fragments, no records.
C20_FailuresSkippedInOrder ==
    pageDone =>
        LET kept == Positions(Extractable(product_elements))
        IN  /\ Len(products) = Len(kept)
            /\ \A n \in DOMAIN kept :
                  products[n] = extract_single_product(product_elements[kept[n]])
            /\ product_elements = <<>> => products = <<>>

\* C20 witness: of two fragments the first raises and the second gives a
\* record, which is returned.
C20_Witness ==
    /\ pageDone
    /\ Len(product_elements) = 2
    /\ extract_single_product(product_elements[1]) = Raised
    /\ Len(products) = 1
    /\ products[1].title = <<"Y">>

(***************************************************************************)
(* Listing links: claim C21.                                               *)
(***************************************************************************)
HasDuplicates(list) == \E i, j \in DOMAIN list : i < j /\ list[i] = list[j]
MatchingLinkSelectors(doc) ==
    {k \in DOMAIN link_selectors : SelectLinks(doc, k) # <<>>}

\* C21: the links get_product_urls returns come only from the first selector
\* of link_selectors with at least one match (none when no selector matches),
\* each is an absolute URL, and no link is returned twice.
C21_FirstLinkSelectorOnly ==
    urls # NoResult =>
        LET matching == MatchingLinkSelectors(anchors)
            first == IF matching = {} THEN <<>>
                     ELSE LinkUrls(SelectLinks(anchors, Min(matching)))
        IN  /\ Range(urls.returned) \subseteq Range(first)
            /\ \A i \in DOMAIN urls.returned : IsAbsoluteUrl(urls.returned[i])
            /\ ~HasDuplicates(urls.returned)

(***************************************************************************)
(* Text normalization: claim C22.                                          *)
(***************************************************************************)
AllWhitespace(s) == \A i \in DOMAIN s : s[i] \in Whitespace
\* s is core with whitespace, possibly none, around it
IsPadded(s, core) ==
    \E i \in 0..(Len(s) - Len(core)) :
        /\ AllWhitespace(SubSeq(s, 1, i))
        /\ SubSeq(s, i + 1, i + Len(core)) = core
        /\ AllWhitespace(SubSeq(s, i + Len(core) + 1, Len(s)))
IsNormalText(v) ==
    \/ IsNA(v)
    \/ /\ ~IsNone(v)
       /\ v # <<>>
       /\ v[1] \notin Whitespace /\ v[Len(v)] \notin Whitespace
       /\ \A i \in 1..(Len(v) - 1) : ~(v[i] \in Whitespace /\ v[i + 1] \in Whitespace)
       /\ v # <<"n", "a", "n">> /\ v # <<"N", "o", "n", "e">>
TextCells(df_) ==
    {<<i, c>> \in (DOMAIN df_.rows) \X Range(text_columns) : c \in df_.columns}

\* C22: after clean_text_columns every cell of the title, supplier_name,
\* location and description columns is absent or a non-empty string without
\* leading or trailing whitespace, without two whitespace characters in a
\* row, and other than "nan" and "None"; a cell that was empty, whitespace
\* only, "nan" or "None", with or without whitespace around it, is absent.
C22_TextCellsNormal ==
    (method = "clean_text_columns" /\ cleaned # NoResult) =>
        /\ cleaned.df.columns = table.columns
        /\ DOMAIN cleaned.df.rows = DOMAIN table.rows
        /\ \A cell \in TextCells(table) :
              LET before == table.rows[cell[1]][cell[2]]
                  after == cleaned.df.rows[cell[1]][cell[2]]
              IN  /\ IsNormalText(after)
                  /\ (\/ IsNull(before)
                      \/ IsPadded(before, <<>>)
                      \/ IsPadded(before, <<"n", "a", "n">>)
                      \/ IsPadded(before, <<"N", "o", "n", "e">>)) => IsNA(after)

\* C22 witness: a call that made a padded "nan" absent in one row, and in
\* another collapsed an inner run of whitespace and left a string.
C22_Witness ==
    /\ method = "clean_text_columns" /\ cleaned # NoResult
    /\ "location" \in table.columns
    /\ Len(table.rows) = 2
    /\ table.rows[1]["location"] = <<" ", "n", "a", "n", "\t">>
    /\ IsNA(cleaned.df.rows[1]["location"])
    /\ table.rows[2]["location"] = <<"a", " ", " ", "a">>
    /\ cleaned.df.rows[2]["location"] = <<"a", " ", "a">>

(***************************************************************************)
(* Price standardization: claims C23 and C24.                              *)
(***************************************************************************)
\* The prices present in the column: the numbers, and the str cells that
\* spell a number
PresentPrices(df_) ==
    {i \in DOMAIN df_.rows : IsFloat(to_numeric(df_.rows[i]["numeric_price"]))}
PriceValue(df_, i) == to_numeric(df_.rows[i]["numeric_price"]).float
\* i holds the k-th smallest of the present prices, ties taken by position
HasRank(df_, i, k) ==
    Cardinality({j \in PresentPrices(df_) :
        \/ RatLt(PriceValue(df_, j), PriceValue(df_, i))
        \/ (PriceValue(df_, j) = PriceValue(df_, i) /\ j <= i)}) = k
RankedPrice(df_, k) ==
    PriceValue(df_, CHOOSE i \in PresentPrices(df_) : HasRank(df_, i, k))
\* The 1st percentile of n <= 101 present prices lies (n - 1)/100 of the way
\* from the smallest to the second smallest, the 99th as far below the
\* largest towards the second largest
Percentile1(df_) ==
    LET n == Cardinality(PresentPrices(df_))
    IN  IF n = 1 THEN RankedPrice(df_, 1)
        ELSE RatAdd(RankedPrice(df_, 1),
                    RatMul(<<n - 1, 100>>,
                           RatSub(RankedPrice(df_, 2), RankedPrice(df_, 1))))
Percentile99(df_) ==
    LET n == Cardinality(PresentPrices(df_))
    IN  IF n = 1 THEN RankedPrice(df_, 1)
        ELSE RatSub(RankedPrice(df_, n),
                    RatMul(<<n - 1, 100>>,
                           RatSub(RankedPrice(df_, n), RankedPrice(df_, n - 1))))

\* C23: standardize_prices on a table with a numeric_price column keeps every
\* row in its place, and sets price_outlier to true on exactly the rows whose
\* price is present and below the 1st or above the 99th percentile of the
\* present prices; a row whose price is absent or not a number gets false.
C23_OutlierFlagNotFilter ==
    (/\ method = "standardize_prices" /\ cleaned # NoResult
     /\ "numeric_price" \in table.columns) =>
        /\ DOMAIN cleaned.df.rows = DOMAIN table.rows
        /\ \A i \in DOMAIN table.rows :
              /\ cleaned.df.rows[i]["title"] = table.rows[i]["title"]
              /\ cleaned.df.rows[i]["numeric_price"] =
                     to_numeric(table.rows[i]["numeric_price"])
              /\ cleaned.df.rows[i]["price_outlier"] =
                     (/\ i \in PresentPrices(table)
                      /\ \/ RatLt(PriceValue(table, i), Percentile1(table))
                         \/ RatLt(Percentile99(table), PriceValue(table, i)))

\* C23 witness: a call on four rows with the prices 100, 200 and 300 and an
\* absent price, which flagged 100 and 300 and neither 200 nor the absent one.
C23_Witness ==
    /\ method = "standardize_prices" /\ cleaned # NoResult
    /\ "numeric_price" \in table.columns
    /\ Len(table.rows) = 4
    /\ table.rows[1]["numeric_price"] = [float |-> <<300, 1>>]
    /\ table.rows[2]["numeric_price"] = NaN
    /\ table.rows[3]["numeric_price"] = [float |-> <<200, 1>>]
    /\ table.rows[4]["numeric_price"] = [float |-> <<100, 1>>]
    /\ cleaned.df.rows[1]["price_outlier"] /\ cleaned.df.rows[4]["price_outlier"]
    /\ ~cleaned.df.rows[2]["price_outlier"] /\ ~cleaned.df.rows[3]["price_outlier"]

\* C24: after standardize_prices the price_unit of a row is what the synonym
\* table of extract_price_unit maps the lower-cased unit to, and the
\* lower-cased unit itself when the table has no entry for it.
C24_UnitBySharedSynonymTable ==
    (/\ method = "standardize_prices" /\ cleaned # NoResult
     /\ {"numeric_price", "price_unit"} \subseteq table.columns) =>
        \A i \in DOMAIN table.rows :
            ~IsNA(table.rows[i]["price_unit"]) =>
                cleaned.df.rows[i]["price_unit"] =
                    MapUnit(Lower(table.rows[i]["price_unit"]))

(***************************************************************************)
(* Location standardization: claim C25.                                    *)
(***************************************************************************)
\* The state normalize_location derives from a location cell; NA when the
\* cell is absent or no key matches
StateOfNormalizeLocation(cell) ==
    IF IsNull(cell) THEN NA
    ELSE LET state == normalize_location(cell).state
         IN  IF state = <<>> THEN NA ELSE state

\* C25: after standardize_locations the extracted_state of every row is the
\* state normalize_location derives from the row's location, and is absent
\* when the location is absent or holds no key of the state table; it is
\* thereby the same on every run.
C25_StateOfNormalizeLocation ==
    (/\ method = "standardize_locations" /\ cleaned # NoResult
     /\ "location" \in table.columns) =>
        \A i \in DOMAIN table.rows :
            LET expected == StateOfNormalizeLocation(table.rows[i]["location"])
                extracted_state == cleaned.df.rows[i]["extracted_state"]
            IN  IF IsNA(expected) THEN IsNull(extracted_state)
                ELSE extracted_state = expected

(***************************************************************************)
(* The cleaning pipeline: claims C26 and C27.                              *)
(***************************************************************************)
CleanDatasetEnded == method = "clean_dataset" /\ cleaned # NoResult
CleanDatasetReturned == CleanDatasetEnded /\ "quality_report" \in DOMAIN cleaned
\* The columns a stage adds and the report fields it derives from column c
DerivedColumns(c) ==
    CASE c = "numeric_price" -> {"price_outlier", "standardized_unit"}
      [] c = "price_unit" -> {"standardized_unit"}
      [] c = "location" -> {"extracted_state"}
      [] OTHER -> {}
DerivedFields(c) ==
    CASE c = "numeric_price" -> {"price_statistics"}
      [] c = "supplier_name" -> {"unique_suppliers"}
      [] c = "location" -> {"unique_locations"}
      [] c = "category" -> {"category_distribution"}
      [] OTHER -> {}

\* C26: on a table that has a title column and lacks optional columns,
\* clean_dataset returns without raising, the table returned has none of the
\* columns the stages derive from a missing column, and the report none of
\* the fields derived from it.
C26_MissingColumnIsNoOp ==
    (CleanDatasetEnded /\ "title" \in table.columns) =>
        /\ CleanDatasetReturned
        /\ \A c \in OptionalColumns \ table.columns :
              /\ cleaned.df.columns \cap ({c} \cup DerivedColumns(c)) = {}
              /\ (DOMAIN cleaned.quality_report) \cap DerivedFields(c) = {}
              /\ c \notin DOMAIN cleaned.quality_report.missing_values

\* C27: clean_dataset on a table without rows ends by raising, and no call
\* returns a report whose total_records is 0.
C27_EmptyTableFails ==
    CleanDatasetEnded =>
        /\ table.rows = <<>> => cleaned = KeyError
        /\ CleanDatasetReturned => cleaned.quality_report.total_records > 0

(***************************************************************************)
(* Exact deduplication, the separator of the key: claim C28.               *)
(***************************************************************************)
\* The pair the key of a row is built from
KeyPair(row) == <<Lower(FillNa(row.title)), Lower(FillNa(row.supplier_name))>>

\* C28: a row that remove_duplicates removed has the lower-cased title and
\* the lower-cased supplier of an earlier row of the table; rows whose pairs
\* differ are not merged, also when their keys title_supplier coincide.
C28_RemovedOnlyForSamePair ==
    runs = 1 =>
        \A i \in DOMAIN input :
            (~\E k \in DOMAIN df : df[k].idx = input[i].idx) =>
                \E j \in DOMAIN input : j < i /\ KeyPair(input[j]) = KeyPair(input[i])

(***************************************************************************)
(* The scraping loop and the retries: claims C29 and C30.                  *)
(***************************************************************************)
\* The value an optional int argument stands for: itself, or the default
Given(arg, default) == IF arg = <<>> THEN default ELSE arg[1]

\* C29: in scrape_category the number of records in scraped_data never
\* exceeds the max_products the method was called with (the configured
\* maximum when none was passed), whatever the pages yield.
C29_RecordsWithinCap ==
    (entry # NoResult /\ entry.method = "scrape_category") =>
        Len(scraped_data) <= Given(entry.max_products, max_products_per_category)

MakeRequestReturned ==
    entry # NoResult /\ entry.method = "make_request" /\ pc = "returned"
AllFailed(n) == Len(outcomes) = n /\ \A k \in DOMAIN outcomes : outcomes[k] = "error"

\* C30: a call make_request(url, max_retries) ends; it sends at most
\* max_retries requests (the configured number when none was passed, none
\* for 0), returns the response of the first request that succeeds and sends
\* no request after it, and returns None exactly when max_retries requests
\* have failed; in scrape_category a url whose make_request returned None
\* leaves scraped_data as it was and the loop goes on to the urls that
\* remain, so that the call ends with every url taken or the cap reached.
C30_RetriesBoundedAndFailureSkipped ==
    /\ <>(pc \in {"returned", "done"})
    /\ [](/\ entry.method = "make_request" =>
               Len(outcomes) <= Given(entry.max_retries, retry_attempts)
          /\ \A k \in DOMAIN outcomes :
               outcomes[k] = "ok" =>
                   /\ k = Len(outcomes)
                   /\ pc # "attempt"
                   /\ response = [status |-> "ok", attempt |-> k - 1]
          /\ MakeRequestReturned =>
               (response = ReturnedNone <=>
                    AllFailed(Given(entry.max_retries, retry_attempts)))
          /\ pc = "done" =>
               (url_index = entry.urls \/ Len(scraped_data) >= max_products))
    /\ [][(pc = "fetched" /\ response = ReturnedNone) =>
              (scraped_data' = scraped_data /\ pc' = "for")]_vars

=============================================================================
